---- MODULE Spec2Model ----
(***************************************************************************)
(* Model of the P2PMART escrow bot (src/newbot.py, the Interactive Agent)  *)
(* and of the userbot (src/newuserbot.py, the Provisioning Agent): its     *)
(* registry write and its processing of the request queue.                 *)
(*                                                                         *)
(* The Interactive Agent is one asyncio event loop.  Updates (commands,    *)
(* button presses, text messages, join requests) are processed one at a    *)
(* time, so a handler is one atomic action, except restart_command, whose  *)
(* inline disclaimer / role-selection tail is split at its await points    *)
(* because tasks created with create_task (update_room_join_status) run    *)
(* between them.  Those tasks are modelled step by step between awaits.    *)
(***************************************************************************)
EXTENDS Integers, Sequences, FiniteSets, TLC

(***************************************************************************)
(* Bounds of the model                                                     *)
(***************************************************************************)
MaxTasks == 2        \* update_room_join_status tasks alive at the same time
MaxJoinEvents == 3   \* join requests delivered in one behaviour
MaxRestarts == 1     \* restart commands in one behaviour
MaxCount == 2        \* saturation of the per-round message counters
MaxRequests == 2     \* /deal commands in one behaviour
MaxPolls == 2        \* polls for the result made by one /deal command

(***************************************************************************)
(* Rooms, usernames and the registry records written for them              *)
(***************************************************************************)
Rooms == {1, 2}

\* Telegram usernames of the people who act (one casing per person)
Users == {"Alice", "bob", "carol"}

\* every spelling of a username that occurs in the model
Names == {"Alice", "alice", "BOB", "bob", "Carol", "carol"}

\* str.lower() on the spellings of Names
Lower(n) ==
    CASE n = "Alice" -> "alice"
      [] n = "BOB"   -> "bob"
      [] n = "Carol" -> "carol"
      [] OTHER       -> n

LowerNames == {Lower(n) : n \in Names}

\* request: the request the room was created for (0 = not followed)
NoRoom ==
    [present |-> FALSE, initiator_username |-> "", counterparty_username |-> "",
     request |-> 0]

\* the usernames of the deal request a room is created for: the initiator
\* as Telegram spells it, the counterparty as the initiator typed it
RequestOf(r) ==
    IF r = 1 THEN [initiator_username |-> "Alice", counterparty_username |-> "BOB"]
             ELSE [initiator_username |-> "Carol", counterparty_username |-> "bob"]

VARIABLES
    deal_rooms,                 \* deal_rooms.json: room id -> record
    room_messages,              \* rooms with an entry in room_messages
    processed_rooms,
    rooms_waiting_for_requests,
    room_joined_users,          \* room -> set of lower-cased usernames ({} = no entry)
    disclaimer_sent,
    role_selection_sent,
    role_messages,              \* rooms with a role-selection message on record
    tasks,                      \* slot -> update_room_join_status task
    handler,                    \* the restart_command that is between two awaits
    joinEvents,                 \* join requests handled so far
    restarts,                   \* restart commands handled so far
    disclaimerCount,            \* room -> disclaimers sent in the current round
    roleSelCount,               \* room -> role-selection messages sent in the current round
    user_roles,                 \* room -> the role dict, in insertion order
    room_transaction_state,     \* room -> step ("none" = no entry)
    step1_messages_sent,
    step5_messages,             \* rooms with a coin prompt on record
    user_amounts,               \* dict keyed by user id, in insertion order
    user_rates,
    user_payment_methods,
    user_blockchain,            \* room -> "none" | "BSC"
    user_coins,                 \* room -> "none" | "USDT" | "USDC"
    buyer_addresses,            \* room -> "none" | address
    seller_addresses,
    deposit_address_messages,   \* rooms with a deposit-address message on record
    approvals,                  \* room -> deal approvals
    room_initiators,            \* room -> buyer / seller usernames
    release_approvals,          \* room -> release approvals
    room_confirmed_deposits,    \* room -> confirmed amount (0 = no entry)
    buttons,                    \* room -> kinds of buttons sent to the room so far
    approvers,                  \* room -> gate -> who set each approved status
    completions,                \* room -> gate -> completions in the current round
    depositRound,               \* rooms whose deposit was confirmed in the current round
    prompts,                    \* room -> prompt -> times sent in the current round
    last,                       \* the last operation and what it sent
    queue_file,                 \* deal_requests.json: the list of requests
    bot,                        \* the deal_command being handled and its copy of the list
    userbot,                    \* process_deal_requests and its copies of the list
    notified,                   \* request -> "Deal Room Created" notifications sent
    verification,               \* the call of verify_transaction_bscscan looked at
    usdt_bsc_address_index,     \* which USDT BSC address is issued next
    usdc_bsc_address_index,     \* which USDC BSC address is issued next
    deposit_address             \* room -> the address of its deposit message ("none" = no message)

joinVars == <<deal_rooms, room_messages, processed_rooms, rooms_waiting_for_requests,
              room_joined_users, disclaimer_sent, role_selection_sent, role_messages,
              tasks, handler, joinEvents, restarts, disclaimerCount, roleSelCount>>

flowVars == <<user_roles, room_transaction_state, step1_messages_sent, step5_messages,
              user_amounts, user_rates, user_payment_methods, user_blockchain, user_coins,
              buyer_addresses, seller_addresses, deposit_address_messages, approvals,
              room_initiators, release_approvals, room_confirmed_deposits, buttons,
              approvers, completions, depositRound, prompts>>

queueVars == <<queue_file, bot, userbot, notified>>

addressVars == <<usdt_bsc_address_index, usdc_bsc_address_index, deposit_address>>

vars == <<joinVars, flowVars, last, queueVars, verification, addressVars>>

Gates == {"deal", "release"}

NoApprovals == [present |-> FALSE, buyer |-> FALSE, seller |-> FALSE]
NoReleaseApprovals == [present |-> FALSE, buyer |-> "waiting", seller |-> "waiting"]
NoInitiators == [present |-> FALSE, buyer |-> "None", seller |-> "None"]
NoApprovers == [buyer |-> "", seller |-> ""]

Slots == 1..MaxTasks

IdleTask == [pc |-> "idle", room |-> 0, user |-> ""]
IdleHandler == [pc |-> "idle", room |-> 0]

\* rec: whether the answers of the escrow flow are kept in last
NoOp == [op |-> "init", room |-> 0, user |-> "", out |-> <<>>, rec |-> FALSE]

IdleBot == [pc |-> "idle", requests |-> <<>>, initiator_username |-> "",
            counterparty_username |-> "", issued |-> 0, polls |-> 0, idx |-> 0]

IdleUserbot == [pc |-> "idle", pending |-> <<>>, requests |-> <<>>,
                status |-> "", result |-> 0]

\* verify_transaction_bscscan not called yet
NoVerification ==
    [tx_hash |-> "", api_key |-> FALSE, response |-> "", requested |-> FALSE,
     valid |-> FALSE, error |-> ""]

\* no queue file yet, no /deal command handled, the userbot asleep, the
\* rotating deposit addresses at their first position
InitQueue ==
    /\ queue_file = <<>>
    /\ bot = IdleBot
    /\ userbot = IdleUserbot
    /\ notified = [i \in 1..MaxRequests |-> 0]
    /\ verification = NoVerification
    /\ usdt_bsc_address_index = 0
    /\ usdc_bsc_address_index = 0
    /\ deposit_address = [r \in Rooms |-> "none"]

Op(o, r, u, out) == [op |-> o, room |-> r, user |-> u, out |-> out, rec |-> last.rec]

\* what a handler of the escrow flow answers: named where it is sent, and
\* kept in last only in the behaviours that record it (last.rec)
Reply(o, r, u, out) == IF last.rec THEN Op(o, r, u, out) ELSE NoOp

Inc(n) == IF n < MaxCount THEN n + 1 ELSE n

\* the elements of a sequence
Range(seq) == {seq[i] : i \in 1..Len(seq)}

\* the messages that ask a room for the input of a step
Prompts ==
    {"step1_prompt", "step2_prompt", "step3_prompt", "step4_prompt", "step5_prompt",
     "buyer_address_prompt", "seller_address_prompt", "deal_summary", "hash_request"}

NoPrompts == [x \in Prompts |-> 0]

\* a handler of the flow has sent out to room r; the prompts are counted
\* where the answers are recorded
Said(o, r, u, out) ==
    /\ last' = Reply(o, r, u, out)
    /\ prompts' = IF last.rec
                  THEN [prompts EXCEPT ![r] =
                            [x \in Prompts |-> IF x \in Range(out) THEN Inc(@[x]) ELSE @[x]]]
                  ELSE prompts

Init ==
    /\ deal_rooms = [r \in Rooms |-> NoRoom]
    /\ room_messages = {}
    /\ processed_rooms = {}
    /\ rooms_waiting_for_requests = {}
    /\ room_joined_users = [r \in Rooms |-> {}]
    /\ disclaimer_sent = {}
    /\ role_selection_sent = {}
    /\ role_messages = {}
    /\ tasks = [s \in Slots |-> IdleTask]
    /\ handler = IdleHandler
    /\ joinEvents = 0
    /\ restarts = 0
    /\ disclaimerCount = [r \in Rooms |-> 0]
    /\ roleSelCount = [r \in Rooms |-> 0]
    /\ user_roles = [r \in Rooms |-> <<>>]
    /\ room_transaction_state = [r \in Rooms |-> "none"]
    /\ step1_messages_sent = {}
    /\ step5_messages = {}
    /\ user_amounts = <<>>
    /\ user_rates = <<>>
    /\ user_payment_methods = <<>>
    /\ user_blockchain = [r \in Rooms |-> "none"]
    /\ user_coins = [r \in Rooms |-> "none"]
    /\ buyer_addresses = [r \in Rooms |-> "none"]
    /\ seller_addresses = [r \in Rooms |-> "none"]
    /\ deposit_address_messages = {}
    /\ approvals = [r \in Rooms |-> NoApprovals]
    /\ room_initiators = [r \in Rooms |-> NoInitiators]
    /\ release_approvals = [r \in Rooms |-> NoReleaseApprovals]
    /\ room_confirmed_deposits = [r \in Rooms |-> 0]
    /\ buttons = [r \in Rooms |-> {}]
    /\ approvers = [r \in Rooms |-> [g \in Gates |-> NoApprovers]]
    /\ completions = [r \in Rooms |-> [g \in Gates |-> 0]]
    /\ depositRound = {}
    /\ prompts = [r \in Rooms |-> NoPrompts]
    /\ last = NoOp
    /\ InitQueue

HandlerFree == handler.pc = "idle"

(***************************************************************************)
(* Provisioning Agent: create_deal_room writes the room's record           *)
(***************************************************************************)
create_deal_room(r) ==
    /\ ~deal_rooms[r].present
    /\ deal_rooms' = [deal_rooms EXCEPT ![r] =
            [present |-> TRUE,
             initiator_username |-> RequestOf(r).initiator_username,
             counterparty_username |-> RequestOf(r).counterparty_username,
                  request |-> 0]]
    /\ last' = Op("create_deal_room", r, "", <<>>)
    /\ UNCHANGED <<room_messages, processed_rooms, rooms_waiting_for_requests,
                   room_joined_users, disclaimer_sent, role_selection_sent, role_messages,
                   tasks, handler, joinEvents, restarts, disclaimerCount, roleSelCount>>
    /\ UNCHANGED flowVars
    /\ UNCHANGED <<queueVars, verification, addressVars>>

(***************************************************************************)
(* check_new_deal_rooms / send_room_waiting_messages for one room          *)
(***************************************************************************)
check_new_deal_rooms(r, sent) ==
    /\ deal_rooms[r].present
    /\ r \notin processed_rooms
    /\ room_messages' = room_messages \cup {r}
    /\ rooms_waiting_for_requests' =
          IF sent THEN rooms_waiting_for_requests \cup {r} ELSE rooms_waiting_for_requests
    /\ processed_rooms' = processed_rooms \cup {r}
    /\ last' = Op("check_new_deal_rooms", r, "", IF sent THEN <<"waiting">> ELSE <<>>)
    /\ UNCHANGED <<deal_rooms, room_joined_users, disclaimer_sent, role_selection_sent,
                   role_messages, tasks, handler, joinEvents, restarts,
                   disclaimerCount, roleSelCount>>
    /\ UNCHANGED flowVars
    /\ UNCHANGED <<queueVars, verification, addressVars>>

(***************************************************************************)
(* handle_chat_join_request: the admission decision for one join request   *)
(***************************************************************************)
\* variant: the requester is looked up among the initiators of every room
is_room_initiator_any_room(r, u) ==
    \E q \in Rooms :
        deal_rooms[q].present /\ Lower(u) = Lower(deal_rooms[q].initiator_username)

is_room_initiator(r, u) == Lower(u) = Lower(deal_rooms[r].initiator_username)

\* variant: the comparison without .lower()
is_room_counterparty_exact_case(r, u) == u = deal_rooms[r].counterparty_username

is_room_counterparty(r, u) == Lower(u) = Lower(deal_rooms[r].counterparty_username)

\* the lowest idle slot of S, 0 when there is none
FreeSlot(S) ==
    IF \E s \in S : tasks[s].pc = "idle"
    THEN CHOOSE s \in S : /\ tasks[s].pc = "idle"
                          /\ \A t \in S : tasks[t].pc = "idle" => s <= t
    ELSE 0

handle_chat_join_request(S, r, u, approveOk) ==
    /\ HandlerFree
    /\ joinEvents < MaxJoinEvents
    /\ joinEvents' = joinEvents + 1
    /\ IF ~deal_rooms[r].present
       THEN \* no room info: neither approved nor declined
            /\ last' = Op("join_request", r, u, <<>>)
            /\ UNCHANGED <<rooms_waiting_for_requests, tasks>>
       ELSE IF is_room_initiator(r, u) \/ is_room_counterparty(r, u)
       THEN /\ FreeSlot(S) # 0
            /\ rooms_waiting_for_requests' =
                  IF approveOk THEN rooms_waiting_for_requests \cup {r}
                               ELSE rooms_waiting_for_requests
            /\ tasks' = [tasks EXCEPT ![FreeSlot(S)] =
                            [pc |-> "start", room |-> r, user |-> u]]
            /\ last' = Op("join_request", r, u, <<"approve">>)
       ELSE /\ last' = Op("join_request", r, u, <<"decline">>)
            /\ UNCHANGED <<rooms_waiting_for_requests, tasks>>
    /\ UNCHANGED <<deal_rooms, room_messages, processed_rooms, room_joined_users,
                   disclaimer_sent, role_selection_sent, role_messages, handler,
                   restarts, disclaimerCount, roleSelCount>>
    /\ UNCHANGED flowVars
    /\ UNCHANGED <<queueVars, verification, addressVars>>

(***************************************************************************)
(* update_room_join_status, one action per stretch between two awaits      *)
(***************************************************************************)
\* from the start of the task to the edit of the party's waiting message
join_status_start(s) ==
    LET r == tasks[s].room
        u == tasks[s].user
    IN  /\ tasks[s].pc = "start"
        /\ IF r \notin room_messages
           THEN /\ tasks' = [tasks EXCEPT ![s] = IdleTask]
                /\ last' = Op("join_status_start", r, u, <<>>)
           ELSE /\ tasks' = [tasks EXCEPT ![s].pc = "track"]
                /\ last' = Op("join_status_start", r, u,
                      (IF is_room_initiator(r, u) THEN <<"edit_initiator">> ELSE <<>>)
                      \o (IF is_room_counterparty(r, u) THEN <<"edit_counterparty">> ELSE <<>>))
        /\ UNCHANGED <<deal_rooms, room_messages, processed_rooms,
                       rooms_waiting_for_requests, room_joined_users, disclaimer_sent,
                       role_selection_sent, role_messages, handler, joinEvents,
                       restarts, disclaimerCount, roleSelCount>>
        /\ UNCHANGED flowVars
        /\ UNCHANGED <<queueVars, verification, addressVars>>

\* "Check if both users have joined" (src/newbot.py 3035-3038)
BothJoined(r, joined) ==
    /\ Cardinality(joined) = 2
    /\ r \notin disclaimer_sent
    /\ Lower(deal_rooms[r].initiator_username) \in joined
    /\ Lower(deal_rooms[r].counterparty_username) \in joined

\* track the joined user, then check-and-set disclaimer_sent
join_status_track(s) ==
    LET r == tasks[s].room
        u == tasks[s].user
        joined == room_joined_users[r] \cup {Lower(u)}
    IN  /\ tasks[s].pc = "track"
        /\ room_joined_users' = [room_joined_users EXCEPT ![r] = joined]
        /\ IF BothJoined(r, joined)
           THEN /\ disclaimer_sent' = disclaimer_sent \cup {r}
                /\ rooms_waiting_for_requests' = rooms_waiting_for_requests \ {r}
                /\ disclaimerCount' = [disclaimerCount EXCEPT ![r] = Inc(@)]
                /\ tasks' = [tasks EXCEPT ![s].pc = "disclaimer"]
                /\ last' = Op("join_status_track", r, u, <<"disclaimer">>)
           ELSE /\ tasks' = [tasks EXCEPT ![s] = IdleTask]
                /\ last' = Op("join_status_track", r, u, <<>>)
                /\ UNCHANGED <<disclaimer_sent, rooms_waiting_for_requests, disclaimerCount>>
        /\ UNCHANGED <<deal_rooms, room_messages, processed_rooms, role_selection_sent,
                       role_messages, handler, joinEvents, restarts, roleSelCount>>
        /\ UNCHANGED flowVars
        /\ UNCHANGED <<queueVars, verification, addressVars>>

(***************************************************************************)
(* send_disclaimer_message and send_role_selection_message, as run by the  *)
(* task in slot s (who = s) or by restart_command (who = 0)                *)
(***************************************************************************)
PcOf(who) == IF who = 0 THEN handler.pc ELSE tasks[who].pc

RoomOf(who) == IF who = 0 THEN handler.room ELSE tasks[who].room

\* where the caller continues after the disclaimer flow returns
Return(who) ==
    IF who = 0
    THEN /\ handler' = [handler EXCEPT !.pc = "notify"]
         /\ UNCHANGED tasks
    ELSE /\ tasks' = [tasks EXCEPT ![who] = IdleTask]
         /\ UNCHANGED handler

Goto(who, pc) ==
    IF who = 0
    THEN /\ handler' = [handler EXCEPT !.pc = pc]
         /\ UNCHANGED tasks
    ELSE /\ tasks' = [tasks EXCEPT ![who].pc = pc]
         /\ UNCHANGED handler

\* the disclaimer send has returned; asyncio.sleep(0.1) follows
send_disclaimer_message(who) ==
    /\ PcOf(who) = "disclaimer"
    /\ Goto(who, "role")
    /\ last' = Op("send_disclaimer_message", RoomOf(who), "", <<>>)
    /\ UNCHANGED <<deal_rooms, room_messages, processed_rooms, rooms_waiting_for_requests,
                   room_joined_users, disclaimer_sent, role_selection_sent, role_messages,
                   joinEvents, restarts, disclaimerCount, roleSelCount>>
    /\ UNCHANGED flowVars
    /\ UNCHANGED <<queueVars, verification, addressVars>>

\* check-and-set of role_selection_sent, then the send is issued
send_role_selection_message(who) ==
    LET r == RoomOf(who)
    IN  /\ PcOf(who) = "role"
        /\ IF r \in role_selection_sent
           THEN /\ Return(who)
                /\ last' = Op("send_role_selection_message", r, "", <<>>)
                /\ UNCHANGED <<role_selection_sent, roleSelCount>>
           ELSE /\ role_selection_sent' = role_selection_sent \cup {r}
                /\ IF Cardinality(room_joined_users[r]) < 2
                   THEN /\ Return(who)
                        /\ last' = Op("send_role_selection_message", r, "", <<>>)
                        /\ UNCHANGED roleSelCount
                   ELSE /\ Goto(who, "rolesend")
                        /\ roleSelCount' = [roleSelCount EXCEPT ![r] = Inc(@)]
                        /\ last' = Op("send_role_selection_message", r, "", <<"role_selection">>)
        /\ UNCHANGED <<deal_rooms, room_messages, processed_rooms,
                       rooms_waiting_for_requests, room_joined_users, disclaimer_sent,
                       role_messages, joinEvents, restarts, disclaimerCount>>
        /\ UNCHANGED flowVars
        /\ UNCHANGED <<queueVars, verification, addressVars>>

\* the role-selection send has returned: role_messages[room] is recorded
role_selection_sent_done(who) ==
    /\ PcOf(who) = "rolesend"
    /\ role_messages' = role_messages \cup {RoomOf(who)}
    /\ buttons' = [buttons EXCEPT ![RoomOf(who)] = @ \cup {"role"}]
    /\ Return(who)
    /\ last' = Op("role_selection_sent_done", RoomOf(who), "", <<>>)
    /\ UNCHANGED <<deal_rooms, room_messages, processed_rooms, rooms_waiting_for_requests,
                   room_joined_users, disclaimer_sent, role_selection_sent,
                   joinEvents, restarts, disclaimerCount, roleSelCount>>
    /\ UNCHANGED <<user_roles, room_transaction_state, step1_messages_sent, step5_messages,
                   user_amounts, user_rates, user_payment_methods, user_blockchain,
                   user_coins, buyer_addresses, seller_addresses, deposit_address_messages,
                   approvals, room_initiators, release_approvals, room_confirmed_deposits,
                   approvers, completions, depositRound, prompts>>
    /\ UNCHANGED <<queueVars, verification, addressVars>>

(***************************************************************************)
(* restart_command                                                         *)
(***************************************************************************)
restart_command(r, u) ==
    /\ HandlerFree
    /\ restarts < MaxRestarts
    /\ restarts' = restarts + 1
    /\ IF ~deal_rooms[r].present
       THEN /\ last' = Op("restart_command", r, u, <<"not_a_deal_room">>)
            /\ UNCHANGED deposit_address
            /\ UNCHANGED <<disclaimer_sent, role_selection_sent, processed_rooms,
                           rooms_waiting_for_requests, role_messages, room_joined_users,
                           disclaimerCount, roleSelCount, handler>>
            /\ UNCHANGED flowVars
       ELSE /\ disclaimer_sent' = disclaimer_sent \ {r}
            /\ role_selection_sent' = role_selection_sent \ {r}
            /\ processed_rooms' = processed_rooms \ {r}
            /\ rooms_waiting_for_requests' = rooms_waiting_for_requests \ {r}
            \* "Clear transaction tracking"
            /\ room_transaction_state' = [room_transaction_state EXCEPT ![r] = "none"]
            /\ seller_addresses' = [seller_addresses EXCEPT ![r] = "none"]
            /\ release_approvals' = [release_approvals EXCEPT ![r] = NoReleaseApprovals]
            /\ deposit_address_messages' = deposit_address_messages \ {r}
            /\ deposit_address' = [deposit_address EXCEPT ![r] = "none"]
            \* "Clear user-specific data for this room": every user's entry
            /\ user_amounts' = <<>>
            /\ user_rates' = <<>>
            /\ user_payment_methods' = <<>>
            /\ user_coins' = [user_coins EXCEPT ![r] = "none"]
            /\ user_blockchain' = [user_blockchain EXCEPT ![r] = "none"]
            /\ user_roles' = [user_roles EXCEPT ![r] = <<>>]
            /\ role_messages' = role_messages \ {r}
            /\ room_joined_users' = [room_joined_users EXCEPT ![r] =
                    {Lower(deal_rooms[r].initiator_username),
                     Lower(deal_rooms[r].counterparty_username)}]
            /\ disclaimerCount' = [disclaimerCount EXCEPT ![r] = 1]
            /\ roleSelCount' = [roleSelCount EXCEPT ![r] = 0]
            /\ approvers' = [approvers EXCEPT ![r]["release"] = NoApprovers]
            /\ completions' = [completions EXCEPT ![r] = [g \in Gates |-> 0]]
            /\ depositRound' = depositRound \ {r}
            /\ prompts' = [prompts EXCEPT ![r] = NoPrompts]
            /\ handler' = [pc |-> "disclaimer", room |-> r]
            /\ last' = Op("restart_command", r, u, <<"disclaimer">>)
            /\ UNCHANGED <<step1_messages_sent, step5_messages, buyer_addresses, approvals,
                           room_initiators, room_confirmed_deposits, buttons>>
    /\ UNCHANGED <<deal_rooms, room_messages, tasks, joinEvents>>
    /\ UNCHANGED <<queueVars, verification, usdt_bsc_address_index, usdc_bsc_address_index>>

\* the closing "Room restarted!" message; the handler returns
restart_notify ==
    /\ handler.pc = "notify"
    /\ handler' = IdleHandler
    /\ last' = Op("restart_notify", handler.room, "", <<"restarted">>)
    /\ UNCHANGED <<deal_rooms, room_messages, processed_rooms, rooms_waiting_for_requests,
                   room_joined_users, disclaimer_sent, role_selection_sent, role_messages,
                   tasks, joinEvents, restarts, disclaimerCount, roleSelCount>>
    /\ UNCHANGED flowVars
    /\ UNCHANGED <<queueVars, verification, addressVars>>

(***************************************************************************)
(* Python dicts, kept in insertion order as sequences of [k, v]            *)
(***************************************************************************)
Has(d, k) == \E i \in 1..Len(d) : d[i].k = k

Get(d, k, default) ==
    IF Has(d, k) THEN d[CHOOSE i \in 1..Len(d) : d[i].k = k].v ELSE default

Put(d, k, v) ==
    IF Has(d, k)
    THEN [i \in 1..Len(d) |-> IF d[i].k = k THEN [k |-> k, v |-> v] ELSE d[i]]
    ELSE Append(d, [k |-> k, v |-> v])

\* the value a "for k, v in d.items(): ... break" loop ends with
First(d, default) == IF Len(d) > 0 THEN d[1].v ELSE default

\* the key a "for k, v in d.items(): if v == x: found = k" loop ends with
LastKeyWith(d, x) ==
    IF \E i \in 1..Len(d) : d[i].v = x
    THEN d[CHOOSE i \in 1..Len(d) :
               /\ d[i].v = x
               /\ \A j \in 1..Len(d) : d[j].v = x => j <= i].k
    ELSE "None"

(***************************************************************************)
(* Text messages and what the parsers make of them                         *)
(***************************************************************************)
GoodAddress == "0x52908400098527886E0F7030069857D2E4169EE7"
ShortAddress == "0x52908400098527886E0F7030069857D2E4169EE"
master_hash == "0x6f83337833118197454614dGe9168365dd3c85232dadb6bbd97f4e240eb5c7dd9"
SomeHash == "0x9f3c5d1e2b4a60718293a4b5c6d7e8f90112233445566778899aabbccddeeff0"
\* "0x", a sign and 39 hexadecimal digits: 42 characters
SignedAddress == "0x+52908400098527886E0F7030069857D2E4169EE"

Texts == {"1000", "0", "nan", "abc", "cdm", GoodAddress, ShortAddress, SignedAddress,
          master_hash, SomeHash}

\* float(text) succeeds
IsFloat(t) == t \in {"1000", "2000", "0", "nan"}

\* float('nan'), which is below no number
NaN == 0 - 1

\* float(text)
FloatOf(t) ==
    IF t = "1000" THEN 1000 ELSE IF t = "2000" THEN 2000 ELSE IF t = "nan" THEN NaN ELSE 0

\* x < y between floats
Below(x, y) == x # NaN /\ y # NaN /\ x < y

valid_payment_methods == {"UPI", "CDM", "CCW", "CASH", "ATM", "CARDLESS", "IMPS", "RTGS", "NEFT"}

\* text.upper()
Upper(t) ==
    IF t = "cdm" THEN "CDM" ELSE IF t = "upi" THEN "UPI" ELSE IF t = "abc" THEN "ABC" ELSE t

(***************************************************************************)
(* button_callback: role_buyer_ / role_seller_                             *)
(***************************************************************************)
RoleIn(r, n) == Get(user_roles[r], Lower(n), "None")

\* variant: the check made for the initiator's presses only
RoleTaken_initiator_only(r, u, role_type) ==
    /\ RoleIn(r, Lower(deal_rooms[r].counterparty_username)) = role_type
    /\ Lower(u) = Lower(deal_rooms[r].initiator_username)

\* "Check if the role is already taken by the other user"
RoleTaken(r, u, role_type) ==
    LET initiator_lower == Lower(deal_rooms[r].initiator_username)
        counterparty_lower == Lower(deal_rooms[r].counterparty_username)
        initiator_role == RoleIn(r, initiator_lower)
        counterparty_role == RoleIn(r, counterparty_lower)
    IN  \/ counterparty_role = role_type /\ Lower(u) = initiator_lower
        \/ initiator_role = role_type /\ Lower(u) = counterparty_lower

\* what becomes of a message the bot sends
SendOutcomes == {"delivered", "timed_out", "failed"}

\* send: what becomes of the AMOUNT prompt, if it is sent
role_select_send(r, u, role_type, send) ==
    LET roles == Put(user_roles[r], Lower(u), role_type)
        both_selected ==
            /\ Get(roles, Lower(deal_rooms[r].initiator_username), "None") # "None"
            /\ Get(roles, Lower(deal_rooms[r].counterparty_username), "None") # "None"
        step1 == both_selected /\ r \notin step1_messages_sent
    IN  /\ HandlerFree
        /\ "role" \in buttons[r]
        /\ IF r \notin role_messages
           THEN /\ Said("role_select", r, u, <<"role_expired">>)
                /\ UNCHANGED <<user_roles, step1_messages_sent, room_transaction_state, buttons>>
           ELSE IF RoleTaken(r, u, role_type)
           THEN /\ Said("role_select", r, u, <<"role_taken">>)
                /\ UNCHANGED <<user_roles, step1_messages_sent, room_transaction_state, buttons>>
           ELSE /\ user_roles' = [user_roles EXCEPT ![r] = roles]
                /\ IF step1
                   THEN \* send_step1_amount_message
                        /\ step1_messages_sent' = step1_messages_sent \cup {r}
                        /\ room_transaction_state' =
                              IF send = "failed"
                              THEN room_transaction_state
                              ELSE [room_transaction_state EXCEPT ![r] = "step1"]
                        /\ Said("role_select", r, u,
                                IF send = "delivered" THEN <<"role_edit", "step1_prompt">>
                                                      ELSE <<"role_edit">>)
                   ELSE /\ Said("role_select", r, u, <<"role_edit">>)
                        /\ UNCHANGED <<step1_messages_sent, room_transaction_state>>
                /\ UNCHANGED buttons
        /\ UNCHANGED joinVars
        /\ UNCHANGED <<queueVars, verification, addressVars>>
        /\ UNCHANGED <<step5_messages, user_amounts, user_rates, user_payment_methods,
                       user_blockchain, user_coins, buyer_addresses, seller_addresses,
                       deposit_address_messages, approvals, room_initiators,
                       release_approvals, room_confirmed_deposits, approvers, completions,
                       depositRound>>

\* the role button pressed while the bot's messages get through
role_select(r, u, role_type) == role_select_send(r, u, role_type, "delivered")

(***************************************************************************)
(* button_callback: blockchain_bsc_                                        *)
(***************************************************************************)
blockchain_select(r, u) ==
    /\ HandlerFree
    /\ "blockchain" \in buttons[r]
    /\ IF user_blockchain[r] = "BSC"
       THEN /\ Said("blockchain_select", r, u, <<"already_selected">>)
            /\ UNCHANGED <<user_blockchain, step5_messages, room_transaction_state, buttons>>
       ELSE /\ user_blockchain' = [user_blockchain EXCEPT ![r] = "BSC"]
            /\ IF r \notin step5_messages
               THEN \* send_step5_coin_message
                    /\ step5_messages' = step5_messages \cup {r}
                    /\ room_transaction_state' = [room_transaction_state EXCEPT ![r] = "step5"]
                    /\ buttons' = [buttons EXCEPT ![r] = @ \cup {"coin"}]
                    /\ Said("blockchain_select", r, u, <<"blockchain_edit", "step5_prompt">>)
               ELSE /\ Said("blockchain_select", r, u, <<"blockchain_edit">>)
                    /\ UNCHANGED <<step5_messages, room_transaction_state, buttons>>
    /\ UNCHANGED joinVars
    /\ UNCHANGED <<queueVars, verification, addressVars>>
    /\ UNCHANGED <<user_roles, step1_messages_sent, user_amounts, user_rates,
                   user_payment_methods, user_coins, buyer_addresses, seller_addresses,
                   deposit_address_messages, approvals, room_initiators, release_approvals,
                   room_confirmed_deposits, approvers, completions, depositRound>>

(***************************************************************************)
(* button_callback: coin_usdt_ / coin_usdc_                                *)
(***************************************************************************)
\* variant: the handler without its idempotency guard
CoinAlreadySelected_never(r, coin_type) == FALSE

\* "Idempotency guard - check if coin already selected"
CoinAlreadySelected(r, coin_type) == user_coins[r] = coin_type

coin_select(r, u, coin_type) ==
    LET buyer_username == LastKeyWith(user_roles[r], "BUYER")
        seller_username == LastKeyWith(user_roles[r], "SELLER")
    IN  /\ HandlerFree
        /\ "coin" \in buttons[r]
        /\ IF CoinAlreadySelected(r, coin_type)
           THEN /\ Said("coin_select", r, u, <<"already_selected">>)
                /\ UNCHANGED <<user_coins, room_transaction_state, room_initiators>>
           ELSE /\ user_coins' = [user_coins EXCEPT ![r] = coin_type]
                /\ room_transaction_state' =
                      [room_transaction_state EXCEPT ![r] = "step6_buyer_address"]
                /\ room_initiators' = [room_initiators EXCEPT ![r] =
                      [present |-> TRUE, buyer |-> buyer_username, seller |-> seller_username]]
                /\ Said("coin_select", r, u,
                      <<"coin_edit", "deal_started">>
                      \o (IF buyer_username # "None" THEN <<"buyer_address_prompt">> ELSE <<>>))
        /\ UNCHANGED joinVars
        /\ UNCHANGED <<queueVars, verification, addressVars>>
        /\ UNCHANGED <<user_roles, step1_messages_sent, step5_messages, user_amounts,
                       user_rates, user_payment_methods, user_blockchain, buyer_addresses,
                       seller_addresses, deposit_address_messages, approvals,
                       release_approvals, room_confirmed_deposits, buttons, approvers,
                       completions, depositRound>>

(***************************************************************************)
(* handle_text in a deal room, by the room's step                          *)
(***************************************************************************)
\* text.startswith('0x')
StartsWith0x(t) == t \in {GoodAddress, ShortAddress, SignedAddress, master_hash, SomeHash}

\* len(text) == 42
Has42Characters(t) == t \in {GoodAddress, SignedAddress}

\* int(text[2:], 16) succeeds: hexadecimal digits, a sign in front allowed
HexParses(t) == t \in {GoodAddress, ShortAddress, SignedAddress, SomeHash}

\* the address check of the buyer / seller address steps
IsAddress(t) == StartsWith0x(t) /\ Has42Characters(t) /\ HexParses(t)

\* len(tx_hash) >= 32, the 0x prefix put in front where it is missing
HashLongEnough(t) == t \in {GoodAddress, ShortAddress, SignedAddress, master_hash, SomeHash}

\* int(tx_hash.replace('0x', ''), 16) succeeds: hexadecimal digits, a sign in
\* front allowed
HashHexParses(t) ==
    t \in {"1000", "0", "abc", GoodAddress, ShortAddress, SignedAddress, SomeHash}

\* verify_transaction_bscscan accepts the format of the hash
WellFormedHash(t) == HashLongEnough(t) /\ HashHexParses(t)

\* what becomes of requests.get and of the response: the request fails, the
\* response is empty, is not JSON, holds no transaction, or holds a
\* transaction sent to the escrow address or to another address
Responses == {"request_error", "empty", "not_json", "not_found", "to_escrow", "to_other"}

\* the answer of verify_transaction_bscscan for a hash, with BSCSCAN_API_KEY
\* configured or not and the given outcome of the request; requested: the
\* request was issued
verify_transaction_bscscan(tx_hash, api_key, response) ==
    LET Answer(requested, valid, error) ==
            [tx_hash |-> tx_hash, api_key |-> api_key, response |-> response,
             requested |-> requested, valid |-> valid, error |-> error]
    IN  IF ~HashLongEnough(tx_hash)
        THEN Answer(FALSE, FALSE, "invalid_hash_length")
        ELSE IF ~HashHexParses(tx_hash)
        THEN Answer(FALSE, FALSE, "not_hexadecimal")
        ELSE IF ~api_key
        THEN Answer(FALSE, FALSE, "api_key_not_configured")
        ELSE CASE response = "request_error" -> Answer(TRUE, FALSE, "error_verifying")
               [] response = "empty" -> Answer(TRUE, FALSE, "empty_response")
               [] response = "not_json" -> Answer(TRUE, FALSE, "invalid_response_format")
               \* "API didn't find the transaction - use test defaults":
               \* to_address = escrow_address
               [] response = "not_found" -> Answer(TRUE, TRUE, "")
               [] response = "to_escrow" -> Answer(TRUE, TRUE, "")
               [] response = "to_other" -> Answer(TRUE, FALSE, "not_sent_to_escrow")

\* deposit_addresses_map.get((blockchain, coin)) finds an address
HasEscrow(r) == user_blockchain[r] = "BSC" /\ user_coins[r] \in {"USDT", "USDC"}

TextCommon ==
    /\ UNCHANGED joinVars
    /\ UNCHANGED <<queueVars, verification, addressVars>>
    /\ UNCHANGED <<user_roles, step1_messages_sent, step5_messages, user_blockchain,
                   user_coins, deposit_address_messages, room_initiators,
                   release_approvals>>

TextNone ==
    /\ TextCommon
    /\ UNCHANGED <<user_amounts, user_rates, user_payment_methods, room_transaction_state,
                   buyer_addresses, seller_addresses, approvals, approvers, completions,
                   room_confirmed_deposits, depositRound, buttons>>

text_step1(r, u, t) ==
    IF ~IsFloat(t)
    THEN /\ Said("handle_text", r, u, <<"invalid_number">>)
         /\ TextNone
    ELSE IF Below(FloatOf(t), 1)
    THEN /\ Said("handle_text", r, u, <<"amount_too_small">>)
         /\ TextNone
    ELSE /\ user_amounts' = Put(user_amounts, u, FloatOf(t))
         \* send_step2_rate_message
         /\ room_transaction_state' = [room_transaction_state EXCEPT ![r] = "step2"]
         /\ Said("handle_text", r, u, <<"step2_prompt">>)
         /\ TextCommon
         /\ UNCHANGED <<user_rates, user_payment_methods, buyer_addresses,
                        seller_addresses, approvals, approvers, completions,
                        room_confirmed_deposits, depositRound, buttons>>

text_step2(r, u, t) ==
    IF ~IsFloat(t)
    THEN /\ Said("handle_text", r, u, <<"invalid_number">>)
         /\ TextNone
    ELSE IF Below(FloatOf(t), 85)
    THEN /\ Said("handle_text", r, u, <<"rate_too_small">>)
         /\ TextNone
    ELSE /\ user_rates' = Put(user_rates, u, FloatOf(t))
         /\ room_transaction_state' = [room_transaction_state EXCEPT ![r] = "step3"]
         /\ Said("handle_text", r, u, <<"step3_prompt">>)
         /\ TextCommon
         /\ UNCHANGED <<user_amounts, user_payment_methods, buyer_addresses,
                        seller_addresses, approvals, approvers, completions,
                        room_confirmed_deposits, depositRound, buttons>>

text_step3(r, u, t) ==
    IF Upper(t) \notin valid_payment_methods
    THEN /\ Said("handle_text", r, u, <<"invalid_payment_method">>)
         /\ TextNone
    ELSE /\ user_payment_methods' = Put(user_payment_methods, u, Upper(t))
         /\ room_transaction_state' = [room_transaction_state EXCEPT ![r] = "step4"]
         \* send_step4_blockchain_message
         /\ buttons' = [buttons EXCEPT ![r] = @ \cup {"blockchain"}]
         /\ Said("handle_text", r, u, <<"step4_prompt">>)
         /\ TextCommon
         /\ UNCHANGED <<user_amounts, user_rates, buyer_addresses, seller_addresses,
                        approvals, approvers, completions, room_confirmed_deposits,
                        depositRound>>

\* the submitter is turned away: the room has a user on record for the role
\* and the sender is someone else
NotTheRole(r, u, role) ==
    /\ room_initiators[r].present
    /\ room_initiators[r][role] # "None"
    /\ Lower(u) # Lower(room_initiators[r][role])

text_buyer_address(r, u, t) ==
    IF NotTheRole(r, u, "buyer")
    THEN /\ Said("handle_text", r, u, <<"only_buyer">>)
         /\ TextNone
    ELSE IF ~IsAddress(t)
    THEN /\ Said("handle_text", r, u, <<"invalid_address">>)
         /\ TextNone
    ELSE /\ buyer_addresses' = [buyer_addresses EXCEPT ![r] = t]
         /\ room_transaction_state' =
               [room_transaction_state EXCEPT ![r] = "step7_seller_address"]
         /\ Said("handle_text", r, u,
               IF room_initiators[r].present /\ room_initiators[r].seller # "None"
               THEN <<"seller_address_prompt">> ELSE <<>>)
         /\ TextCommon
         /\ UNCHANGED <<user_amounts, user_rates, user_payment_methods,
                        seller_addresses, approvals, approvers, completions,
                        room_confirmed_deposits, depositRound, buttons>>

text_seller_address(r, u, t) ==
    IF NotTheRole(r, u, "seller")
    THEN /\ Said("handle_text", r, u, <<"only_seller">>)
         /\ TextNone
    ELSE IF ~IsAddress(t)
    THEN /\ Said("handle_text", r, u, <<"invalid_address">>)
         /\ TextNone
    ELSE /\ seller_addresses' = [seller_addresses EXCEPT ![r] = t]
         \* send_deal_summary_message initialises the approvals
         /\ approvals' = [approvals EXCEPT ![r] =
               [present |-> TRUE, buyer |-> FALSE, seller |-> FALSE]]
         /\ approvers' = [approvers EXCEPT ![r]["deal"] = NoApprovers]
         /\ completions' = [completions EXCEPT ![r]["deal"] = 0]
         /\ buttons' = [buttons EXCEPT ![r] = @ \cup {"approve_deal"}]
         /\ room_transaction_state' = [room_transaction_state EXCEPT ![r] = "deal_summary"]
         /\ Said("handle_text", r, u, <<"deal_summary">>)
         /\ TextCommon
         /\ UNCHANGED <<user_amounts, user_rates, user_payment_methods,
                        buyer_addresses, room_confirmed_deposits, depositRound>>

\* variant: every hash confirms the deposit
DepositVerified_always(tx_hash, verify_result) == TRUE

\* the master hash, or a hash the verifier answers valid for
DepositVerified(tx_hash, verify_result) == tx_hash = master_hash \/ verify_result.valid

\* api_key, response: the environment of the call of verify_transaction_bscscan
text_hash(r, u, t, api_key, response) ==
    LET amount == First(user_amounts, 0)
        verify_result == verify_transaction_bscscan(t, api_key, response)
        request == IF t # master_hash /\ verify_result.requested
                   THEN <<"bscscan_request">> ELSE <<>>
    IN  IF ~HasEscrow(r)
        THEN /\ Said("handle_text", r, u, <<"escrow_not_found">>)
             /\ TextNone
        ELSE IF amount = 0
        THEN /\ Said("handle_text", r, u, <<"amount_not_found">>)
             /\ TextNone
        ELSE IF DepositVerified(t, verify_result)
        THEN /\ room_confirmed_deposits' = [room_confirmed_deposits EXCEPT ![r] = amount]
             /\ depositRound' = depositRound \cup {r}
             /\ room_transaction_state' = [room_transaction_state EXCEPT ![r] = "none"]
             /\ Said("handle_text", r, u,
                   request \o <<"deposit_found", "payment_received">>)
             /\ TextCommon
             /\ UNCHANGED <<user_amounts, user_rates, user_payment_methods,
                            buyer_addresses, seller_addresses, approvals, approvers,
                            completions, buttons>>
        ELSE /\ Said("handle_text", r, u, request \o <<"verification_failed">>)
             /\ TextNone

handle_text(r, u, t) ==
    /\ HandlerFree
    /\ deal_rooms[r].present
    /\ LET state == room_transaction_state[r]
       IN  CASE state = "step1" -> text_step1(r, u, t)
             [] state = "step2" -> text_step2(r, u, t)
             [] state = "step3" -> text_step3(r, u, t)
             [] state = "step6_buyer_address" -> text_buyer_address(r, u, t)
             [] state = "step7_seller_address" -> text_seller_address(r, u, t)
             [] state = "awaiting_hash" ->
                    \E api_key \in BOOLEAN, response \in Responses :
                        text_hash(r, u, t, api_key, response)
             [] OTHER -> /\ Said("handle_text", r, u, <<>>)
                         /\ TextNone

(***************************************************************************)
(* The two approval gates                                                  *)
(***************************************************************************)
\* variant: the seller branch without the comparison of usernames
UserRole_seller_unchecked(r, u) ==
    IF room_initiators[r].buyer # "None" /\ Lower(u) = Lower(room_initiators[r].buyer)
    THEN "buyer"
    ELSE IF room_initiators[r].seller # "None" THEN "seller" ELSE "none"

\* 'buyer', 'seller' or "none": the role the gate handlers give the presser
UserRole(r, u) ==
    IF room_initiators[r].buyer # "None" /\ Lower(u) = Lower(room_initiators[r].buyer)
    THEN "buyer"
    ELSE IF room_initiators[r].seller # "None" /\ Lower(u) = Lower(room_initiators[r].seller)
    THEN "seller"
    ELSE "none"

GateFrame ==
    /\ UNCHANGED joinVars
    /\ UNCHANGED <<queueVars, verification>>
    /\ UNCHANGED <<user_roles, room_transaction_state, step1_messages_sent, step5_messages,
                   user_amounts, user_rates, user_payment_methods, user_blockchain,
                   user_coins, buyer_addresses, seller_addresses, room_initiators,
                   room_confirmed_deposits, depositRound>>

\* variant: the handler without its "Check if already approved"
AlreadyApproved_never(r, user_role) == FALSE

\* "Check if already approved"
AlreadyApproved(r, user_role) == approvals[r].present /\ approvals[r][user_role]

\* button_callback: approve_deal_
\* the escrow addresses by blockchain and coin
deposit_addresses_map ==
    [p \in {<<"BSC", "USDT">>, <<"BSC", "USDC">>} |->
        "0xDA4c2a5B876b0c7521e1c752690D8705080000fE"]

USDT_BSC_ADDRESSES ==
    <<"0xDA4c2a5B876b0c7521e1c752690D8705080000fE",
      "0xf282e789e835ed379aea84ece204d2d643e6774f">>

USDC_BSC_ADDRESSES ==
    <<"0xAe6313dE2fDD754734074D8a6F4835c10827115b",
      "0xC941064db91dB2B54e3Acd909a7020583f05bD14">>

\* dict.get of deposit_addresses_map
MapGet(blockchain, coin, default) ==
    IF <<blockchain, coin>> \in DOMAIN deposit_addresses_map
    THEN deposit_addresses_map[<<blockchain, coin>>]
    ELSE default

\* "Send deposit address message": the address the room is given, the
\* rotating index of its coin moved on (Python indices, from 0).  The
\* addresses are followed in the behaviours that keep the answers (last.rec)
IssueDepositAddress(r) ==
    LET blockchain == IF user_blockchain[r] = "none" THEN "BSC" ELSE user_blockchain[r]
        coin_type == IF user_coins[r] = "none" THEN "USDT" ELSE user_coins[r]
    IN  IF ~last.rec
        THEN UNCHANGED addressVars
        ELSE IF blockchain = "BSC" /\ coin_type = "USDT"
        THEN /\ deposit_address' =
                   [deposit_address EXCEPT ![r] = USDT_BSC_ADDRESSES[usdt_bsc_address_index + 1]]
             /\ usdt_bsc_address_index' =
                   (usdt_bsc_address_index + 1) % Len(USDT_BSC_ADDRESSES)
             /\ UNCHANGED usdc_bsc_address_index
        ELSE IF blockchain = "BSC" /\ coin_type = "USDC"
        THEN /\ deposit_address' =
                   [deposit_address EXCEPT ![r] = USDC_BSC_ADDRESSES[usdc_bsc_address_index + 1]]
             /\ usdc_bsc_address_index' =
                   (usdc_bsc_address_index + 1) % Len(USDC_BSC_ADDRESSES)
             /\ UNCHANGED usdt_bsc_address_index
        ELSE /\ deposit_address' =
                   [deposit_address EXCEPT ![r] =
                       MapGet(blockchain, coin_type,
                              "0xDA4c2a5B876b0c7521e1c752690D8705080000fE")]
             /\ UNCHANGED <<usdt_bsc_address_index, usdc_bsc_address_index>>

approve_deal(r, u) ==
    LET user_role == UserRole(r, u)
        approved == [approvals[r] EXCEPT !.present = TRUE, ![user_role] = TRUE]
        both_approved == approved.buyer /\ approved.seller
    IN  /\ HandlerFree
        /\ "approve_deal" \in buttons[r]
        /\ IF user_role = "none"
           THEN /\ Said("approve_deal", r, u, <<"not_authorized">>)
                /\ UNCHANGED <<approvals, approvers, completions,
                               deposit_address_messages, buttons>>
                /\ UNCHANGED addressVars
           ELSE IF AlreadyApproved(r, user_role)
           THEN /\ Said("approve_deal", r, u, <<"already_approved">>)
                /\ UNCHANGED <<approvals, approvers, completions,
                               deposit_address_messages, buttons>>
                /\ UNCHANGED addressVars
           ELSE /\ approvals' = [approvals EXCEPT ![r] = approved]
                /\ approvers' = [approvers EXCEPT ![r]["deal"][user_role] = Lower(u)]
                /\ IF both_approved
                   THEN /\ completions' = [completions EXCEPT ![r]["deal"] = Inc(@)]
                        /\ deposit_address_messages' = deposit_address_messages \cup {r}
                        /\ IssueDepositAddress(r)
                        /\ buttons' = [buttons EXCEPT ![r] = @ \cup {"payment_sent"}]
                        /\ Said("approve_deal", r, u,
                              <<"deal_confirmed", "deposit_address", "summary_edit">>)
                   ELSE /\ Said("approve_deal", r, u, <<"summary_edit">>)
                        /\ UNCHANGED <<completions, deposit_address_messages, buttons>>
                        /\ UNCHANGED addressVars
        /\ UNCHANGED release_approvals
        /\ GateFrame

\* button_callback: payment_sent_
payment_sent(r, u) ==
    /\ HandlerFree
    /\ "payment_sent" \in buttons[r]
    /\ IF room_initiators[r].seller = "None" \/ Lower(u) # Lower(room_initiators[r].seller)
       THEN /\ Said("payment_sent", r, u, <<"only_seller">>)
            /\ UNCHANGED room_transaction_state
       ELSE /\ room_transaction_state' = [room_transaction_state EXCEPT ![r] = "awaiting_hash"]
            /\ Said("payment_sent", r, u, <<"hash_request">>)
    /\ UNCHANGED joinVars
    /\ UNCHANGED <<queueVars, verification, addressVars>>
    /\ UNCHANGED <<user_roles, step1_messages_sent, step5_messages, user_amounts, user_rates,
                   user_payment_methods, user_blockchain, user_coins, buyer_addresses,
                   seller_addresses, deposit_address_messages, approvals, room_initiators,
                   release_approvals, room_confirmed_deposits, buttons, approvers,
                   completions, depositRound>>

release_command(r, u) ==
    /\ HandlerFree
    /\ deal_rooms[r].present
    /\ IF ~room_initiators[r].present
       THEN /\ Said("release_command", r, u, <<"no_active_deal">>)
            /\ UNCHANGED <<release_approvals, approvers, completions, buttons>>
       ELSE /\ release_approvals' = [release_approvals EXCEPT ![r] =
                  [present |-> TRUE, buyer |-> "waiting", seller |-> "waiting"]]
            /\ approvers' = [approvers EXCEPT ![r]["release"] = NoApprovers]
            /\ completions' = [completions EXCEPT ![r]["release"] = 0]
            /\ buttons' = [buttons EXCEPT ![r] = @ \cup {"release"}]
            /\ Said("release_command", r, u, <<"release_confirmation">>)
    /\ UNCHANGED <<approvals, deposit_address_messages>>
    /\ GateFrame
    /\ UNCHANGED addressVars

\* button_callback: approve_release_
approve_release(r, u) ==
    LET user_role == UserRole(r, u)
        statuses == [release_approvals[r] EXCEPT !.present = TRUE, ![user_role] = "approved"]
        both_approved == statuses.buyer = "approved" /\ statuses.seller = "approved"
    IN  /\ HandlerFree
        /\ "release" \in buttons[r]
        /\ IF user_role = "none"
           THEN /\ Said("approve_release", r, u, <<"not_authorized">>)
                /\ UNCHANGED <<release_approvals, approvers, completions>>
           ELSE /\ release_approvals' = [release_approvals EXCEPT ![r] = statuses]
                /\ approvers' = [approvers EXCEPT ![r]["release"][user_role] = Lower(u)]
                /\ IF both_approved
                   THEN \* send_deal_complete_message
                        /\ completions' = [completions EXCEPT ![r]["release"] = Inc(@)]
                        /\ Said("approve_release", r, u, <<"deal_complete", "release_edit">>)
                   ELSE /\ Said("approve_release", r, u, <<"release_edit">>)
                        /\ UNCHANGED completions
        /\ UNCHANGED <<approvals, deposit_address_messages, buttons>>
        /\ GateFrame
        /\ UNCHANGED addressVars

\* button_callback: decline_release_
decline_release(r, u) ==
    LET user_role == UserRole(r, u)
        statuses == [release_approvals[r] EXCEPT !.present = TRUE, ![user_role] = "rejected"]
    IN  /\ HandlerFree
        /\ "release" \in buttons[r]
        /\ IF user_role = "none"
           THEN /\ Said("decline_release", r, u, <<"not_authorized">>)
                /\ UNCHANGED <<release_approvals, approvers>>
           ELSE /\ release_approvals' = [release_approvals EXCEPT ![r] = statuses]
                /\ approvers' = [approvers EXCEPT ![r]["release"][user_role] = ""]
                /\ Said("decline_release", r, u, <<"release_edit">>)
        /\ UNCHANGED <<approvals, deposit_address_messages, buttons, completions>>
        /\ GateFrame
        /\ UNCHANGED addressVars

\* what balance_command answers in room r: nothing before the deposit
\* address message is on record, else room_confirmed_deposits.get(room, 0)
BalanceReport(r) ==
    [silent |-> r \notin deposit_address_messages,
     amount |-> IF r \in deposit_address_messages THEN room_confirmed_deposits[r] ELSE 0]

balance_command(r, u) ==
    /\ HandlerFree
    /\ deal_rooms[r].present
    /\ last' = Reply("balance_command", r, u,
                     IF BalanceReport(r).silent THEN <<>> ELSE <<"balance">>)
    /\ UNCHANGED joinVars
    /\ UNCHANGED flowVars
    /\ UNCHANGED <<queueVars, verification, addressVars>>

(***************************************************************************)
(* The admission gate on its own, for the rooms R and the task slots S     *)
(***************************************************************************)
NextGate(R, S) ==
    \/ \E r \in R : create_deal_room(r)
    \/ \E r \in R, sent \in BOOLEAN : check_new_deal_rooms(r, sent)
    \/ \E r \in R, u \in Users, ok \in BOOLEAN : handle_chat_join_request(S, r, u, ok)
    \/ \E s \in S : join_status_start(s)
    \/ \E s \in S : join_status_track(s)
    \/ \E who \in S \cup {0} : send_disclaimer_message(who)
    \/ \E who \in S \cup {0} : send_role_selection_message(who)
    \/ \E who \in S \cup {0} : role_selection_sent_done(who)
    \/ \E r \in R, u \in Users : restart_command(r, u)
    \/ restart_notify

\* both rooms of the registry, join tasks one after the other
NextJoin == NextGate(Rooms, {1})

SpecJoin == Init /\ [][NextJoin]_vars

\* one room, join tasks interleaved at their await points
NextRace == NextGate({1}, Slots)

SpecRace == Init /\ [][NextRace]_vars

(***************************************************************************)
(* The escrow flow of one room                                             *)
(***************************************************************************)
FlowRooms == {1}

Parties == {"Alice", "bob"}

\* what is typed during a deal: the initiator types the terms (an amount or
\* rate, a payment method), either party an address (also a well-formed hash)
\* or the master hash
FlowTexts ==
    ({"Alice"} \X {"1000", "cdm"}) \cup (Parties \X {GoodAddress, master_hash})

\* room 1 as the admission gate leaves it: both participants admitted, the
\* disclaimer and the role selection posted, no task in flight
ActiveRoom ==
    /\ deal_rooms = [r \in Rooms |->
            IF r \in FlowRooms
            THEN [present |-> TRUE,
                  initiator_username |-> RequestOf(r).initiator_username,
                  counterparty_username |-> RequestOf(r).counterparty_username,
                  request |-> 0]
            ELSE NoRoom]
    /\ room_messages = FlowRooms
    /\ processed_rooms = FlowRooms
    /\ rooms_waiting_for_requests = {}
    /\ room_joined_users = [r \in Rooms |->
            IF r \in FlowRooms
            THEN {Lower(RequestOf(r).initiator_username),
                  Lower(RequestOf(r).counterparty_username)}
            ELSE {}]
    /\ disclaimer_sent = FlowRooms
    /\ role_selection_sent = FlowRooms
    /\ role_messages = FlowRooms
    /\ tasks = [s \in Slots |-> IdleTask]
    /\ handler = IdleHandler
    /\ joinEvents = 2
    /\ restarts = 0
    /\ disclaimerCount = [r \in Rooms |-> IF r \in FlowRooms THEN 1 ELSE 0]
    /\ roleSelCount = [r \in Rooms |-> IF r \in FlowRooms THEN 1 ELSE 0]
    /\ user_roles = [r \in Rooms |-> <<>>]
    /\ room_transaction_state = [r \in Rooms |-> "none"]
    /\ step1_messages_sent = {}
    /\ step5_messages = {}
    /\ user_amounts = <<>>
    /\ user_rates = <<>>
    /\ user_payment_methods = <<>>
    /\ user_blockchain = [r \in Rooms |-> "none"]
    /\ user_coins = [r \in Rooms |-> "none"]
    /\ buyer_addresses = [r \in Rooms |-> "none"]
    /\ seller_addresses = [r \in Rooms |-> "none"]
    /\ deposit_address_messages = {}
    /\ approvals = [r \in Rooms |-> NoApprovals]
    /\ room_initiators = [r \in Rooms |-> NoInitiators]
    /\ release_approvals = [r \in Rooms |-> NoReleaseApprovals]
    /\ room_confirmed_deposits = [r \in Rooms |-> 0]
    /\ buttons = [r \in Rooms |-> IF r \in FlowRooms THEN {"role"} ELSE {}]
    /\ approvers = [r \in Rooms |-> [g \in Gates |-> NoApprovers]]
    /\ completions = [r \in Rooms |-> [g \in Gates |-> 0]]
    /\ depositRound = {}
    /\ prompts = [r \in Rooms |-> NoPrompts]
    /\ InitQueue

InitActive == ActiveRoom /\ last = NoOp

Coins == {"USDT", "USDC"}

\* restart, role selection and the steps up to the deal summary.
\* P: who restarts, selects roles and presses the buttons; T: who types what,
\* as <<user, text>>; K: the coin buttons pressed
NextSetup(P, T, K) ==
    \/ \E r \in FlowRooms, u \in P : restart_command(r, u)
    \/ send_disclaimer_message(0)
    \/ send_role_selection_message(0)
    \/ role_selection_sent_done(0)
    \/ restart_notify
    \/ \E r \in FlowRooms, u \in P, role_type \in {"BUYER", "SELLER"} :
            role_select(r, u, role_type)
    \/ \E r \in FlowRooms, ut \in T : handle_text(r, ut[1], ut[2])
    \/ \E r \in FlowRooms, u \in P : blockchain_select(r, u)
    \/ \E r \in FlowRooms, u \in P, coin_type \in K : coin_select(r, u, coin_type)

\* the two approval gates. P: who presses "payment sent" and types /release;
\* G: who presses the gates' buttons
NextGates(P, G) ==
    \/ \E r \in FlowRooms, u \in G : approve_deal(r, u)
    \/ \E r \in FlowRooms, u \in P : payment_sent(r, u)
    \/ \E r \in FlowRooms, u \in P : release_command(r, u)
    \/ \E r \in FlowRooms, u \in G : approve_release(r, u)
    \/ \E r \in FlowRooms, u \in G : decline_release(r, u)
    \/ \E r \in FlowRooms, u \in P : balance_command(r, u)

\* the whole flow between the two participants, anyone pressing the gates
Next == NextSetup(Parties, FlowTexts, Coins) \/ NextGates(Parties, Users)

Spec == InitActive /\ [][Next]_vars

\* the same with one coin on offer
NextPress == NextSetup(Parties, FlowTexts, {"USDT"}) \/ NextGates(Parties, Users)

SpecPress == InitActive /\ [][NextPress]_vars

\* role and coin selection open to every user of the room
NextRoles == NextSetup(Users, FlowTexts, Coins)

SpecRoles == InitActive /\ [][NextRoles]_vars

\* the steps up to the deal summary with every user typing every text, the
\* answers kept in last
InitText == ActiveRoom /\ last = [NoOp EXCEPT !.rec = TRUE]

NextText == NextSetup(Parties, Users \X Texts, {"USDT"})

SpecText == InitText /\ [][NextText]_vars

\* one round of the flow between the two participants up to the release
\* command, the answers and the requests to BscScan kept in last and the
\* prompts counted.  K: the coin buttons pressed
NextRound(K) ==
    \/ \E r \in FlowRooms, u \in Parties, role_type \in {"BUYER", "SELLER"} :
            role_select(r, u, role_type)
    \/ \E r \in FlowRooms, ut \in FlowTexts : handle_text(r, ut[1], ut[2])
    \/ \E r \in FlowRooms, u \in Parties : blockchain_select(r, u)
    \/ \E r \in FlowRooms, u \in Parties, coin_type \in K : coin_select(r, u, coin_type)
    \/ \E r \in FlowRooms, u \in Parties : approve_deal(r, u)
    \/ \E r \in FlowRooms, u \in Parties : payment_sent(r, u)
    \/ \E r \in FlowRooms, u \in Parties : release_command(r, u)

\* with one coin on offer
NextDeposit == NextRound({"USDT"})

SpecDeposit == InitText /\ [][NextDeposit]_vars

\* with both coins on offer
NextPrompts == NextRound(Coins)

SpecPrompts == InitText /\ [][NextPrompts]_vars

(***************************************************************************)
(* verify_transaction_bscscan on its own                                   *)
(***************************************************************************)
\* one call, for any text as the hash and any environment
verify(tx_hash, api_key, response) ==
    /\ verification' = verify_transaction_bscscan(tx_hash, api_key, response)
    /\ UNCHANGED addressVars
    /\ UNCHANGED <<joinVars, flowVars, last, queueVars>>

NextVerify ==
    \E tx_hash \in Texts, api_key \in BOOLEAN, response \in Responses :
        verify(tx_hash, api_key, response)

SpecVerify == Init /\ [][NextVerify]_vars

(***************************************************************************)
(* The request queue (deal_requests.json) between the two processes.  Each *)
(* process reads the whole file into a list, changes the list and dumps it *)
(* back; a read and a dump are one step each, and the other process runs   *)
(* between them.                                                           *)
(***************************************************************************)
\* who asks for a room with whom
DealPairs == {RequestOf(r) : r \in Rooms}

\* the record write_deal_request appends; id numbers the /deal commands
NewRequest(id, initiator_username, counterparty_username) ==
    [id |-> id,
     initiator_username |-> initiator_username,
     counterparty_username |-> counterparty_username,
     status |-> "pending", result |-> 0, sent |-> FALSE]

QueueFrame ==
    /\ UNCHANGED <<room_messages, processed_rooms, rooms_waiting_for_requests,
                   room_joined_users, disclaimer_sent, role_selection_sent, role_messages,
                   tasks, handler, joinEvents, restarts, disclaimerCount, roleSelCount>>
    /\ UNCHANGED flowVars
    /\ UNCHANGED last
    /\ UNCHANGED <<verification, addressVars>>

\* deal_command up to json.load in write_deal_request
deal_command(p) ==
    /\ HandlerFree
    /\ bot.pc = "idle"
    /\ bot.issued < MaxRequests
    /\ bot' = [bot EXCEPT !.pc = "append",
                          !.requests = queue_file,
                          !.initiator_username = p.initiator_username,
                          !.counterparty_username = p.counterparty_username,
                          !.issued = @ + 1,
                          !.polls = 0]
    /\ UNCHANGED <<queue_file, userbot, notified, deal_rooms>>
    /\ QueueFrame

\* requests.append(...) and json.dump; the polling loop follows
write_deal_request ==
    /\ bot.pc = "append"
    /\ queue_file' = Append(bot.requests,
            NewRequest(bot.issued, bot.initiator_username, bot.counterparty_username))
    /\ bot' = [bot EXCEPT !.pc = "sleep", !.requests = <<>>]
    /\ UNCHANGED <<userbot, notified, deal_rooms>>
    /\ QueueFrame

\* the first request from index from on that the loop of
\* check_and_send_deal_results notifies, 0 when there is none
NextToSend(requests, initiator_username, from) ==
    LET due == {i \in from..Len(requests) :
                    /\ ~requests[i].sent
                    /\ requests[i].initiator_username = initiator_username
                    /\ requests[i].status = "completed"
                    /\ requests[i].result # 0}
    IN  IF due = {} THEN 0 ELSE CHOOSE i \in due : \A j \in due : i <= j

\* variant: the loop goes on for two polls more
PollDone_two_more ==
    [bot EXCEPT !.pc = IF bot.polls + 1 >= MaxPolls + 2 THEN "idle" ELSE "sleep",
                !.polls = @ + 1, !.requests = <<>>, !.idx = 0]

\* one poll is over: the next asyncio.sleep(0.2), or the end of deal_command
PollDone ==
    [bot EXCEPT !.pc = IF bot.polls + 1 >= MaxPolls THEN "idle" ELSE "sleep",
                !.polls = @ + 1, !.requests = <<>>, !.idx = 0]

\* check_and_send_deal_results from json.load to its first send
check_and_send_deal_results ==
    LET idx == NextToSend(queue_file, bot.initiator_username, 1)
    IN  /\ bot.pc = "sleep"
        /\ IF idx = 0
           THEN \* nothing to notify: updated stays False, nothing is dumped
                /\ bot' = PollDone
                /\ UNCHANGED notified
           ELSE /\ bot' = [bot EXCEPT !.pc = "send", !.requests = queue_file, !.idx = idx]
                /\ notified' = [notified EXCEPT ![queue_file[idx].id] = Inc(@)]
        /\ UNCHANGED <<queue_file, userbot, deal_rooms>>
        /\ QueueFrame

\* the send has returned: req['sent'] = True, then the next send of the loop
\* or, at its end, json.dump of the list read at the start of the poll
notification_sent ==
    LET requests == [bot.requests EXCEPT ![bot.idx].sent = TRUE]
        idx == NextToSend(requests, bot.initiator_username, bot.idx + 1)
    IN  /\ bot.pc = "send"
        /\ IF idx = 0
           THEN /\ queue_file' = requests
                /\ bot' = PollDone
                /\ UNCHANGED notified
           ELSE /\ bot' = [bot EXCEPT !.requests = requests, !.idx = idx]
                /\ notified' = [notified EXCEPT ![requests[idx].id] = Inc(@)]
                /\ UNCHANGED queue_file
        /\ UNCHANGED <<userbot, deal_rooms>>
        /\ QueueFrame

\* read_deal_requests: the pending requests of the file
read_deal_requests ==
    LET pending == SelectSeq(queue_file, LAMBDA req : req.status = "pending")
    IN  /\ userbot.pc = "idle"
        /\ pending # <<>>
        /\ userbot' = [userbot EXCEPT !.pc = "create", !.pending = pending]
        /\ UNCHANGED <<queue_file, bot, notified, deal_rooms>>
        /\ QueueFrame

\* the rooms that have no record yet
FreeRooms == {r \in Rooms : ~deal_rooms[r].present}

\* how create_deal_room ends: the room set up and its id returned; the room
\* created and recorded but a later statement raising (invite_link is read
\* unassigned when getMe gave no bot username); CreateChannelRequest raising
CreateOutcomes == {"created", "setup_failed", "not_created"}

\* variant: the record is written after the completion mark, not before
room_info_saved_after_mark(chat_id, req) == deal_rooms

\* "Store initial deal room info immediately" and "Save to file"
room_info_saved(chat_id, req) ==
    [deal_rooms EXCEPT ![chat_id] =
        [present |-> TRUE,
         initiator_username |-> req.initiator_username,
         counterparty_username |-> req.counterparty_username,
         request |-> req.id]]

\* process_deal_requests: create_deal_room for the next request of the list
\* read, and the status it reports
process_deal_requests(outcome) ==
    LET req == Head(userbot.pending)
        chat_id == CHOOSE r \in FreeRooms : \A q \in FreeRooms : r <= q
    IN  /\ userbot.pc = "create"
        /\ outcome # "not_created" => FreeRooms # {}
        /\ IF outcome = "not_created"
           THEN UNCHANGED deal_rooms
           ELSE deal_rooms' = room_info_saved(chat_id, req)
        /\ IF outcome = "created"
           THEN userbot' = [userbot EXCEPT !.pc = "update",
                                           !.status = "completed", !.result = chat_id]
           ELSE userbot' = [userbot EXCEPT !.pc = "update",
                                           !.status = "failed", !.result = 0]
        /\ UNCHANGED <<queue_file, bot, notified>>
        /\ QueueFrame

\* the loop of update_request_status over the list it has read
Updated(requests, initiator_username, counterparty_username, status, result) ==
    [i \in 1..Len(requests) |->
        IF /\ requests[i].initiator_username = initiator_username
           /\ requests[i].counterparty_username = counterparty_username
        THEN [requests[i] EXCEPT !.status = status,
                                 !.result = IF result # 0 THEN result ELSE @]
        ELSE requests[i]]

\* update_request_status from json.load to the end of its loop
update_request_status ==
    LET req == Head(userbot.pending)
    IN  /\ userbot.pc = "update"
        /\ userbot' = [userbot EXCEPT
                !.pc = "dump",
                !.requests = Updated(queue_file, req.initiator_username,
                                     req.counterparty_username,
                                     userbot.status, userbot.result)]
        /\ UNCHANGED <<queue_file, bot, notified, deal_rooms>>
        /\ QueueFrame

\* json.dump of update_request_status; the next request of the list read, or
\* asyncio.sleep(2)
update_request_status_dump ==
    LET rest == Tail(userbot.pending)
    IN  /\ userbot.pc = "dump"
        /\ queue_file' = userbot.requests
        /\ userbot' = [IdleUserbot EXCEPT !.pc = IF rest = <<>> THEN "idle" ELSE "create",
                                          !.pending = rest]
        /\ UNCHANGED <<bot, notified, deal_rooms>>
        /\ QueueFrame

NextQueue ==
    \/ \E p \in DealPairs : deal_command(p)
    \/ write_deal_request
    \/ check_and_send_deal_results
    \/ notification_sent
    \/ read_deal_requests
    \/ \E outcome \in CreateOutcomes : process_deal_requests(outcome)
    \/ update_request_status
    \/ update_request_status_dump

SpecQueue == Init /\ [][NextQueue]_vars

\* the steps of the Interactive Agent on the queue
BotStep ==
    \/ \E p \in DealPairs : deal_command(p)
    \/ write_deal_request
    \/ check_and_send_deal_results
    \/ notification_sent

\* the steps of the Provisioning Agent
UserbotStep ==
    \/ read_deal_requests
    \/ \E outcome \in CreateOutcomes : process_deal_requests(outcome)
    \/ update_request_status
    \/ update_request_status_dump

\* both processes keep running: a handler that has started goes on to its
\* end, and the loop of process_deal_requests never stops
SpecQueueLive == SpecQueue /\ WF_vars(BotStep) /\ WF_vars(UserbotStep)

(***************************************************************************)
(* Properties of the admission gate                                        *)
(***************************************************************************)
\* the lower-cased usernames the registry holds for room r
Registered(r) ==
    IF deal_rooms[r].present
    THEN {Lower(deal_rooms[r].initiator_username),
          Lower(deal_rooms[r].counterparty_username)}
    ELSE {}

\* C8: a join request is answered with an approval exactly when the
\* requester's username is, ignoring case, the initiator or the counterparty
\* registered for the room the request is for; a requester the room's record
\* does not name (registered for another room or for none) is declined.
C8_JoinApprovedIffRegistered ==
    last.op = "join_request" =>
        /\ (last.out = <<"approve">>) <=> (Lower(last.user) \in Registered(last.room))
        /\ (deal_rooms[last.room].present /\ Lower(last.user) \notin Registered(last.room))
               => last.out = <<"decline">>

\* carol, whom room 2 registers, asked to join room 1 and was declined
C8_DeclinedForOtherRoom ==
    /\ last = Op("join_request", 1, "carol", <<"decline">>)
    /\ "carol" \in Registered(2)
    /\ "carol" \notin Registered(1)

\* C9: the joined-participants set of every room has at most two members,
\* each of them a lower-cased username of the room's registry record, through
\* any join requests and restarts.
C9_JoinedWithinRegistry ==
    \A r \in Rooms :
        /\ Cardinality(room_joined_users[r]) <= 2
        /\ room_joined_users[r] \subseteq Registered(r)

\* both participants of room 1 are tracked, a restart and a further join
\* event of a participant have been handled
C9_FullAfterRestartAndReplay ==
    /\ room_joined_users[1] = {"alice", "bob"}
    /\ restarts >= 1
    /\ last.op = "join_status_track"
    /\ joinEvents >= 3

\* no task or handler is between two awaits
Quiescent ==
    /\ handler.pc = "idle"
    /\ \A s \in Slots : tasks[s].pc = "idle"

\* C10: in every round of a room the disclaimer and the role-selection
\* message are each sent at most once, whatever the interleaving of the join
\* tasks and however often a join event is delivered, and once both
\* participants are tracked and every task has run to its end both were sent.
C10_ActivationExactlyOnce ==
    \A r \in Rooms :
        /\ disclaimerCount[r] <= 1
        /\ roleSelCount[r] <= 1
        /\ (Quiescent /\ room_joined_users[r] = Registered(r)
                /\ Cardinality(room_joined_users[r]) = 2)
               => (disclaimerCount[r] >= 1 /\ roleSelCount[r] >= 1)

(***************************************************************************)
(* Properties of the escrow flow                                           *)
(***************************************************************************)
\* both statuses of gate g of room r are "approved"
BothApproved(r, g) ==
    IF g = "deal"
    THEN approvals[r].buyer /\ approvals[r].seller
    ELSE release_approvals[r].buyer = "approved" /\ release_approvals[r].seller = "approved"

\* C1: at either gate, a step that performs the completion action ends in a
\* state where the buyer status and the seller status are both approved, and
\* the two approvals were given by two different usernames.
C1_CompletionNeedsBothParties ==
    [][\A r \in FlowRooms, g \in Gates :
          completions'[r][g] > completions[r][g] =>
              /\ BothApproved(r, g)'
              /\ approvers'[r][g].buyer # approvers'[r][g].seller]_vars

\* C2: in one release round send_deal_complete_message is performed at most
\* once, whatever presses follow the second approval.
C2_ReleaseCompletesOnce ==
    \A r \in FlowRooms : completions[r]["release"] <= 1

\* the room's place in the order ROLE_SELECTION (0), AMOUNT, RATE,
\* PAYMENT_METHOD, BLOCKCHAIN, COIN, BUYER_ADDRESS, SELLER_ADDRESS,
\* DEAL_APPROVAL, AWAITING_DEPOSIT_HASH (9), RELEASE_APPROVAL (10)
StepRank(r) ==
    LET state == room_transaction_state[r]
    IN  CASE state = "step1" -> 1
          [] state = "step2" -> 2
          [] state = "step3" -> 3
          [] state = "step4" -> 4
          [] state = "step5" -> 5
          [] state = "step6_buyer_address" -> 6
          [] state = "step7_seller_address" -> 7
          [] state = "deal_summary" -> 8
          [] state = "awaiting_hash" -> 9
          [] OTHER -> IF r \in depositRound THEN 10 ELSE 0

\* C3: no step other than a restart command moves a room to an earlier
\* place in the order of steps.
C3_StepNeverBackward ==
    [][restarts' = restarts =>
          \A r \in FlowRooms : StepRank(r)' >= StepRank(r)]_vars

\* C4: the release gate is open (its statuses exist) or has completed only
\* in a room whose deposit was confirmed in the current round.
C4_ReleaseOnlyAfterDeposit ==
    \A r \in FlowRooms :
        (release_approvals[r].present \/ completions[r]["release"] >= 1)
            => r \in depositRound

\* C5: the initiator and the counterparty of a room never hold the same
\* role in the room's role map.
C5_RolesDistinct ==
    \A r \in Rooms :
        LET initiator_role == RoleIn(r, deal_rooms[r].initiator_username)
            counterparty_role == RoleIn(r, deal_rooms[r].counterparty_username)
        IN  deal_rooms[r].present =>
                ~(initiator_role # "None" /\ initiator_role = counterparty_role)

\* the initiator holds BUYER and the counterparty SELLER after a restart
C5_BothRolesHeldAfterRestart ==
    /\ RoleIn(1, deal_rooms[1].initiator_username) = "BUYER"
    /\ RoleIn(1, deal_rooms[1].counterparty_username) = "SELLER"
    /\ restarts >= 1
    /\ room_initiators[1].buyer = "bob"

\* C6: the role map of a room has entries only for the room's registered
\* usernames, and the buyer and seller the room records at coin selection
\* are registered usernames.
C6_RolesOnlyForRegistered ==
    \A r \in Rooms :
        /\ \A i \in 1..Len(user_roles[r]) : user_roles[r][i].k \in Registered(r)
        /\ room_initiators[r].buyer \in Registered(r) \cup {"None"}
        /\ room_initiators[r].seller \in Registered(r) \cup {"None"}

\* the effective statuses of the seller / of the buyer at both gates
StatusesOf(r, role) == <<approvals[r][role], release_approvals[r][role]>>

\* the role the room's buyer / seller record gives username u
HeldRole(r, u) ==
    IF room_initiators[r].buyer # "None" /\ Lower(room_initiators[r].buyer) = Lower(u)
    THEN "buyer"
    ELSE IF room_initiators[r].seller # "None" /\ Lower(room_initiators[r].seller) = Lower(u)
    THEN "seller"
    ELSE "none"

BothRolesHeld(r) ==
    /\ RoleIn(r, deal_rooms[r].initiator_username) # "None"
    /\ RoleIn(r, deal_rooms[r].counterparty_username) # "None"

\* C14: whenever a role selection completes the pair of roles of the two
\* registered participants, in the first round or after a restart, the room's
\* step becomes AMOUNT (the step1 prompt is sent).
C14_BothRolesStartAmount ==
    [][\A r \in FlowRooms :
          (BothRolesHeld(r)' /\ ~BothRolesHeld(r))
              => room_transaction_state'[r] = "step1"]_vars

\* the negotiated terms of room r are all absent
TermsCleared(r) ==
    /\ user_roles[r] = <<>>
    /\ user_amounts = <<>>
    /\ user_rates = <<>>
    /\ user_payment_methods = <<>>
    /\ user_blockchain[r] = "none"
    /\ user_coins[r] = "none"
    /\ buyer_addresses[r] = "none"
    /\ seller_addresses[r] = "none"
    /\ ~approvals[r].buyer /\ ~approvals[r].seller
    /\ release_approvals[r] = NoReleaseApprovals
    /\ room_confirmed_deposits[r] = 0

\* C15: a restart command in a deal room leaves the room without a step and
\* without any negotiated term, and leaves the registry unchanged.
C15_RestartClearsTerms ==
    [][\A r \in FlowRooms :
          (deal_rooms[r].present /\ restarts' = restarts + 1)
              => /\ room_transaction_state'[r] = "none"
                 /\ TermsCleared(r)'
                 /\ deal_rooms' = deal_rooms]_vars

\* C16: a step that is not a restart command never turns an approved or
\* rejected release status into waiting.
C16_ReleaseStatusKeptUntilRestart ==
    [][restarts' = restarts =>
          \A r \in FlowRooms, role \in {"buyer", "seller"} :
              release_approvals[r][role] \in {"approved", "rejected"}
                  => release_approvals'[r][role] # "waiting"]_vars

\* a deal summary is posted in this step: a round of deal approvals begins
DealRoundBegins(r) ==
    /\ room_transaction_state[r] = "step7_seller_address"
    /\ room_transaction_state'[r] = "deal_summary"

DealState(r) ==
    <<room_transaction_state[r], user_roles[r], user_amounts, user_rates,
      user_payment_methods, user_blockchain[r], user_coins[r],
      buyer_addresses[r], seller_addresses[r], approvals[r], release_approvals[r]>>

\* C18: once both release statuses are approved, no step other than a
\* restart command changes the room's step, terms, addresses or statuses.
C18_DormantAfterRelease ==
    [][\A r \in FlowRooms :
          (BothApproved(r, "release") /\ restarts' = restarts)
              => DealState(r)' = DealState(r)]_vars

(***************************************************************************)
(* Properties of the typed steps                                           *)
(***************************************************************************)
\* the text is a decimal number
Numeric(t) == t \in {"1000", "0"}

\* the text is "0x" followed by exactly 40 hexadecimal digits
WellFormedAddress(t) == t = GoodAddress

\* the text is not a valid input for the step room r is at
InvalidInput(r, t) ==
    LET state == room_transaction_state[r]
    IN  CASE state = "step1" -> ~Numeric(t) \/ FloatOf(t) < 1
          [] state = "step2" -> ~Numeric(t) \/ FloatOf(t) < 85
          [] state = "step3" -> Upper(t) \notin valid_payment_methods
          [] state \in {"step6_buyer_address", "step7_seller_address"} ->
                ~WellFormedAddress(t)
          [] OTHER -> FALSE

\* the step and the stored terms of room r
StepAndTerms(r) ==
    <<room_transaction_state[r], user_amounts, user_rates, user_payment_methods,
      buyer_addresses[r], seller_addresses[r]>>

\* the answers that turn an input away
Rejections ==
    {"invalid_number", "amount_too_small", "rate_too_small", "invalid_payment_method",
     "invalid_address", "only_buyer", "only_seller"}

\* C19: a text that is invalid for the step the room is at leaves the step
\* and the stored terms as they are and is answered with one rejection.
C19_InvalidInputRejected ==
    [][\A r \in FlowRooms, u \in Users, t \in Texts :
          (handle_text(r, u, t) /\ InvalidInput(r, t))
              => /\ StepAndTerms(r)' = StepAndTerms(r)
                 /\ Len(last'.out) = 1
                 /\ last'.out[1] \in Rejections]_vars

\* username u holds role (BUYER or SELLER) in room r: in the role map, or as
\* the buyer / seller the room has on record
HoldsRole(r, u, role) ==
    \/ RoleIn(r, u) = role
    \/ HeldRole(r, u) = (IF role = "BUYER" THEN "buyer" ELSE "seller")

\* C20: at the buyer address step a text of a user who does not hold the
\* BUYER role changes neither the addresses nor the step and, when it is a
\* well-formed address, is answered with the only-the-buyer rejection; the
\* same at the seller address step for the SELLER role.
C20_AddressOnlyFromRoleHolder ==
    [][\A r \in FlowRooms, u \in Users, t \in Texts :
          LET state == room_transaction_state[r]
              role == IF state = "step6_buyer_address" THEN "BUYER" ELSE "SELLER"
          IN  (/\ handle_text(r, u, t)
               /\ state \in {"step6_buyer_address", "step7_seller_address"}
               /\ ~HoldsRole(r, u, role))
                  => /\ UNCHANGED <<buyer_addresses, seller_addresses, room_transaction_state>>
                     /\ WellFormedAddress(t) =>
                            last'.out = (IF role = "BUYER" THEN <<"only_buyer">>
                                                           ELSE <<"only_seller">>)]_vars

(***************************************************************************)
(* Properties of the request queue                                         *)
(***************************************************************************)
\* the record of request id in the list requests (a one-element set, or {})
RecordOf(requests, id) == {requests[i] : i \in {j \in 1..Len(requests) : requests[j].id = id}}

\* C11: no step of either process removes a request from the queue file,
\* turns a completed or failed status back into pending, removes a result or
\* clears a sent flag.
C11_NoLostUpdate ==
    [][\A i \in 1..Len(queue_file) :
          \E j \in 1..Len(queue_file') :
              /\ queue_file'[j].id = queue_file[i].id
              /\ queue_file[i].status # "pending" => queue_file'[j].status # "pending"
              /\ queue_file[i].result # 0 => queue_file'[j].result # 0
              /\ queue_file[i].sent => queue_file'[j].sent]_vars

\* C12: a request of the queue file whose status is completed or failed
\* keeps that status and its result in every later step.
C12_DecidedIsFinal ==
    [][\A i \in 1..Len(queue_file) :
          queue_file[i].status \in {"completed", "failed"} =>
              \A rec \in RecordOf(queue_file', queue_file[i].id) :
                  /\ rec.status = queue_file[i].status
                  /\ rec.result = queue_file[i].result]_vars

\* C13: the room-created notification of a request is sent at most once.
C13_NotifiedAtMostOnce ==
    \A id \in 1..MaxRequests : notified[id] <= 1

(***************************************************************************)
(* Properties of the users who are not registered for a room               *)
(***************************************************************************)
\* user u is neither the registered initiator nor the registered counterparty
\* of room r
Outsider(r, u) == Lower(u) \notin Registered(r)

\* the step, terms, approvals and confirmed deposit of room r
Session(r) ==
    <<room_transaction_state[r], user_amounts, user_rates, user_payment_methods,
      user_blockchain[r], user_coins[r], buyer_addresses[r], seller_addresses[r],
      approvals[r], release_approvals[r], room_confirmed_deposits[r]>>

\* this step is one of the actions C21 lists, made by user u in room r
ListedAction(r, u) ==
    \/ /\ room_transaction_state[r] \in {"step1", "step2", "step3", "awaiting_hash"}
       /\ \E t \in Texts : handle_text(r, u, t)
    \/ blockchain_select(r, u)
    \/ \E coin_type \in Coins : coin_select(r, u, coin_type)
    \/ release_command(r, u)
    \/ restart_command(r, u)

\* C21: a text at the amount, rate, payment method or deposit hash step, a
\* blockchain or coin button press, a release command or a restart command of
\* a user who is not registered for the room leaves the room's step, terms,
\* approvals and confirmed deposit unchanged.
C21_OutsiderChangesNothing ==
    [][\A r \in FlowRooms, u \in Users :
          (Outsider(r, u) /\ ListedAction(r, u)) => Session(r)' = Session(r)]_vars

(***************************************************************************)
(* Properties of the deposit hash and of its verification                  *)
(***************************************************************************)
\* C22: a text at the deposit hash step records a confirmed deposit or takes
\* the room out of that step only when it is the master hash, and then
\* without a request to the verifier's service, or when the verifier
\* answered valid for it; when the verifier answers not valid the room stays
\* at the deposit hash step and no deposit is recorded.
C22_DepositOnlyIfVerified ==
    [][\A r \in FlowRooms, u \in Users, t \in Texts :
          (room_transaction_state[r] = "awaiting_hash" /\ handle_text(r, u, t)) =>
              LET requested == "bscscan_request" \in Range(last'.out)
                  confirmed == \/ "deposit_found" \in Range(last'.out)
                               \/ room_confirmed_deposits'[r] # room_confirmed_deposits[r]
                  left == room_transaction_state'[r] # "awaiting_hash"
              IN  /\ (confirmed \/ left) =>
                        \/ t = master_hash /\ ~requested
                        \/ /\ t # master_hash
                           /\ \E api_key \in BOOLEAN, response \in Responses :
                                 /\ text_hash(r, u, t, api_key, response)
                                 /\ verify_transaction_bscscan(t, api_key, response).valid
                  /\ (/\ t # master_hash
                      /\ \E api_key \in BOOLEAN, response \in Responses :
                            /\ text_hash(r, u, t, api_key, response)
                            /\ ~verify_transaction_bscscan(t, api_key, response).valid)
                        => ~confirmed /\ ~left]_vars

\* a hash was looked up at the service and verified: the deposit is recorded
\* and the room has left the deposit hash step
C22_RecordedAfterLookup ==
    /\ last.op = "handle_text"
    /\ last.out = <<"bscscan_request", "deposit_found", "payment_received">>
    /\ room_confirmed_deposits[1] # 0
    /\ room_transaction_state[1] = "none"

\* the hash is at least 32 characters long with its 0x prefix
LongEnoughHash(t) == t \in {GoodAddress, ShortAddress, SignedAddress, master_hash, SomeHash}

\* the body of the hash, after the 0x prefix, is made of hexadecimal digits
HexadecimalBody(t) == t \in {"1000", "0", "abc", GoodAddress, ShortAddress, SomeHash}

\* the hash is malformed: too short or with a non-hexadecimal body
MalformedHash(t) == ~LongEnoughHash(t) \/ ~HexadecimalBody(t)

\* a call of the verifier has been made
Verified == verification # NoVerification

\* C23: for a well-formed hash the verifier answers not valid, with a reason,
\* when the recipient is not the escrow address, when the lookup fails
\* (request error, empty response, transaction not returned) and when the
\* response cannot be parsed; it answers valid only when the service returned
\* a transaction whose recipient is the escrow address.
C23_ValidOnlyForEscrow ==
    (Verified /\ ~MalformedHash(verification.tx_hash)) =>
        /\ verification.response \in
                {"to_other", "request_error", "empty", "not_found", "not_json"}
              => ~verification.valid /\ verification.error # ""
        /\ verification.valid => verification.response = "to_escrow"

\* C24: for a malformed hash the verifier answers not valid and issues no
\* request to the service.
C24_MalformedNeverLookedUp ==
    (Verified /\ MalformedHash(verification.tx_hash)) =>
        ~verification.valid /\ ~verification.requested

(***************************************************************************)
(* Properties of the failed requests and of the polling                    *)
(***************************************************************************)
\* the queue file shows request id as failed
Failed(id) == \E rec \in RecordOf(queue_file, id) : rec.status = "failed"

\* the Interactive Agent is sending a message about request id, found failed
FailureNoticed(id) ==
    /\ bot.pc = "send"
    /\ bot.requests[bot.idx].id = id
    /\ bot.requests[bot.idx].status = "failed"

\* request id is among the requests the Provisioning Agent has picked up
PickedUp(id) == \E k \in 1..Len(userbot.pending) : userbot.pending[k].id = id

\* C25: a request marked failed leads to a failure notice of the Interactive
\* Agent, and a request the queue file shows as failed is not picked up for
\* processing.
C25_FailureSurfacedNoRetry ==
    /\ \A id \in 1..MaxRequests : Failed(id) ~> FailureNoticed(id)
    /\ [][\A id \in 1..MaxRequests :
            (Failed(id) /\ ~PickedUp(id)) => ~PickedUp(id)']_vars

\* C26: a deal command polls for the result at most MaxPolls times (60 in
\* the source) and then ends, whether or not a result was found.
C26_PollingBounded ==
    /\ [](bot.polls <= MaxPolls)
    /\ (bot.pc # "idle") ~> (bot.pc = "idle")

\* the command has ended after its last poll with its request still pending
C26_EndedWithoutResult ==
    /\ bot.pc = "idle"
    /\ bot.polls = MaxPolls
    /\ \E i \in 1..Len(queue_file) :
          /\ queue_file[i].id = bot.issued
          /\ queue_file[i].status = "pending"

(***************************************************************************)
(* Properties of repeated events                                           *)
(***************************************************************************)
\* C27: in every room each prompt is sent at most once in a round.
C27_OnePromptPerRound ==
    \A r \in FlowRooms, x \in Prompts : prompts[r][x] <= 1

\* user u is in the joined-participants set of room r
AlreadyJoined(r, u) == Lower(u) \in room_joined_users[r]

\* task s of update_room_join_status takes this step
JoinStatusStep(s) == tasks[s].pc \in {"start", "track"} /\ tasks'[s] # tasks[s]

\* C28: the join event of a participant who has already joined leaves the
\* joined-participants set unchanged, edits no waiting message and sends no
\* disclaimer.
C28_JoinReplayIdempotent ==
    [][\A s \in Slots :
          (JoinStatusStep(s) /\ AlreadyJoined(tasks[s].room, tasks[s].user)) =>
              /\ room_joined_users' = room_joined_users
              /\ last'.out = <<>>]_vars

\* C29: a press of the blockchain button, or of a coin button, for the value
\* the room has already selected is acknowledged and changes nothing of the
\* flow: no step, identity, coin or blockchain changes and nothing is sent.
C29_ReselectionIsNoOp ==
    [][\A r \in FlowRooms, u \in Users :
          /\ (blockchain_select(r, u) /\ user_blockchain[r] = "BSC")
                => UNCHANGED flowVars /\ last'.out = <<"already_selected">>
          /\ \A coin_type \in Coins :
                (coin_select(r, u, coin_type) /\ user_coins[r] = coin_type)
                    => UNCHANGED flowVars /\ last'.out = <<"already_selected">>]_vars

\* the coin of the room was pressed again and the press acknowledged
C29_CoinPressedAgain ==
    /\ last.op = "coin_select"
    /\ last.out = <<"already_selected">>
    /\ user_coins[1] \in Coins
    /\ room_transaction_state[1] = "step6_buyer_address"

\* C30: a join request for a room from a user the room's record does not
\* name is declined and changes nothing of the room's session: the joined
\* set, the waiting set, the disclaimer and role-selection markers, the
\* roles and the step stay as they are and no task is started.
C30_OutsiderJoinDeclined ==
    [][\A r \in Rooms, u \in Users :
          (/\ deal_rooms[r].present
           /\ Outsider(r, u)
           /\ \E approveOk \in BOOLEAN : handle_chat_join_request(Slots, r, u, approveOk))
              => /\ last'.out = <<"decline">>
                 /\ UNCHANGED <<room_joined_users, rooms_waiting_for_requests,
                                disclaimer_sent, role_selection_sent, role_messages,
                                tasks>>
                 /\ UNCHANGED flowVars]_vars

\* a user the record of the room does not name was declined while the room
\* was waiting for its second participant
C30_DeclinedWhileWaiting ==
    /\ last.op = "join_request"
    /\ last.out = <<"decline">>
    /\ deal_rooms[last.room].present
    /\ Lower(last.user) \notin Registered(last.room)
    /\ Cardinality(room_joined_users[last.room]) = 1
    /\ last.room \in rooms_waiting_for_requests

(***************************************************************************)
(* Properties of the address check                                         *)
(***************************************************************************)
\* C31: at the buyer address step and at the seller address step the text of
\* a sender who is not turned away for the role is accepted (stored, the
\* step moved on) exactly when it is 0x followed by 40 hexadecimal digits.
C31_AddressAcceptedIffWellFormed ==
    [][\A r \in FlowRooms, u \in Users, t \in Texts :
          LET state == room_transaction_state[r]
              role == IF state = "step6_buyer_address" THEN "buyer" ELSE "seller"
              accepted == room_transaction_state'[r] # state
          IN  (/\ handle_text(r, u, t)
               /\ state \in {"step6_buyer_address", "step7_seller_address"}
               /\ ~NotTheRole(r, u, role))
                  => (accepted <=> WellFormedAddress(t))]_vars

(***************************************************************************)
(* Properties of the balance command                                       *)
(***************************************************************************)
\* C32: the balance command is silent in a room whose deposit address has
\* not been issued in the current round; once it has been issued the command
\* reports 0 until a deposit is confirmed in the current round, and the
\* confirmed deposit after that.
C32_BalanceOfCurrentRound ==
    \A r \in FlowRooms :
        /\ r \notin deposit_address_messages => BalanceReport(r).silent
        /\ r \in deposit_address_messages =>
              /\ ~BalanceReport(r).silent
              /\ BalanceReport(r).amount =
                    (IF r \in depositRound THEN room_confirmed_deposits[r] ELSE 0)

(***************************************************************************)
(* The Interactive Agent started while rooms are in the registry           *)
(***************************************************************************)
\* the rooms deal_rooms.json holds when the process starts
RecoveredRooms == {2}

\* every room of the registry is marked processed at startup
mark_existing_rooms_processed(rooms) == {r \in Rooms : rooms[r].present}

\* the state after main() has started the process: the registry as the
\* Provisioning Agent left it, the in-memory state empty, the rooms of the
\* registry marked processed
InitRecovered ==
    /\ deal_rooms = [r \in Rooms |->
            IF r \in RecoveredRooms
            THEN [present |-> TRUE,
                  initiator_username |-> RequestOf(r).initiator_username,
                  counterparty_username |-> RequestOf(r).counterparty_username,
                  request |-> 0]
            ELSE NoRoom]
    /\ processed_rooms = mark_existing_rooms_processed(deal_rooms)
    /\ room_messages = {}
    /\ rooms_waiting_for_requests = {}
    /\ room_joined_users = [r \in Rooms |-> {}]
    /\ disclaimer_sent = {}
    /\ role_selection_sent = {}
    /\ role_messages = {}
    /\ tasks = [s \in Slots |-> IdleTask]
    /\ handler = IdleHandler
    /\ joinEvents = 0
    /\ restarts = 0
    /\ disclaimerCount = [r \in Rooms |-> 0]
    /\ roleSelCount = [r \in Rooms |-> 0]
    /\ user_roles = [r \in Rooms |-> <<>>]
    /\ room_transaction_state = [r \in Rooms |-> "none"]
    /\ step1_messages_sent = {}
    /\ step5_messages = {}
    /\ user_amounts = <<>>
    /\ user_rates = <<>>
    /\ user_payment_methods = <<>>
    /\ user_blockchain = [r \in Rooms |-> "none"]
    /\ user_coins = [r \in Rooms |-> "none"]
    /\ buyer_addresses = [r \in Rooms |-> "none"]
    /\ seller_addresses = [r \in Rooms |-> "none"]
    /\ deposit_address_messages = {}
    /\ approvals = [r \in Rooms |-> NoApprovals]
    /\ room_initiators = [r \in Rooms |-> NoInitiators]
    /\ release_approvals = [r \in Rooms |-> NoReleaseApprovals]
    /\ room_confirmed_deposits = [r \in Rooms |-> 0]
    /\ buttons = [r \in Rooms |-> {}]
    /\ approvers = [r \in Rooms |-> [g \in Gates |-> NoApprovers]]
    /\ completions = [r \in Rooms |-> [g \in Gates |-> 0]]
    /\ depositRound = {}
    /\ prompts = [r \in Rooms |-> NoPrompts]
    /\ last = NoOp
    /\ InitQueue

SpecRecover == InitRecovered /\ [][NextJoin]_vars

\* C33: a join of a registered participant of a room that was in the
\* registry when the process started is tracked: the join-status task goes
\* on from its start to adding the user to the joined set of the room.
C33_RecoveredRoomJoinTracked ==
    [][\A s \in Slots :
          (/\ join_status_start(s)
           /\ tasks[s].room \in RecoveredRooms
           /\ Lower(tasks[s].user) \in Registered(tasks[s].room))
              => tasks'[s].pc = "track"]_vars

(***************************************************************************)
(* Prompts whose send fails                                                *)
(***************************************************************************)
\* the disclaimer send raises: send_disclaimer_message logs the failure and
\* returns without calling send_role_selection_message
send_disclaimer_failed(who) ==
    /\ PcOf(who) = "disclaimer"
    /\ Return(who)
    /\ last' = Op("send_disclaimer_failed", RoomOf(who), "", <<>>)
    /\ UNCHANGED <<deal_rooms, room_messages, processed_rooms, rooms_waiting_for_requests,
                   room_joined_users, disclaimer_sent, role_selection_sent, role_messages,
                   joinEvents, restarts, disclaimerCount, roleSelCount>>
    /\ UNCHANGED flowVars
    /\ UNCHANGED <<queueVars, verification, addressVars>>

\* the role-selection send raises: no role_messages entry is recorded
role_selection_send_failed(who) ==
    /\ PcOf(who) = "rolesend"
    /\ Return(who)
    /\ last' = Op("role_selection_send_failed", RoomOf(who), "", <<>>)
    /\ UNCHANGED <<deal_rooms, room_messages, processed_rooms, rooms_waiting_for_requests,
                   room_joined_users, disclaimer_sent, role_selection_sent, role_messages,
                   joinEvents, restarts, disclaimerCount, roleSelCount>>
    /\ UNCHANGED flowVars
    /\ UNCHANGED <<queueVars, verification, addressVars>>

\* one room from its creation to the AMOUNT prompt, each send of a prompt
\* delivered or not
NextSend ==
    \/ \E r \in FlowRooms : create_deal_room(r)
    \/ \E r \in FlowRooms, sent \in BOOLEAN : check_new_deal_rooms(r, sent)
    \/ \E r \in FlowRooms, u \in Users, ok \in BOOLEAN :
            handle_chat_join_request({1}, r, u, ok)
    \/ join_status_start(1)
    \/ join_status_track(1)
    \/ send_disclaimer_message(1)
    \/ send_disclaimer_failed(1)
    \/ send_role_selection_message(1)
    \/ role_selection_sent_done(1)
    \/ role_selection_send_failed(1)
    \/ \E r \in FlowRooms, u \in Parties, role_type \in {"BUYER", "SELLER"},
          send \in SendOutcomes : role_select_send(r, u, role_type, send)

SpecSend == Init /\ [][NextSend]_vars

\* both participants of the room have joined, no join-status task is under
\* way and the room has no role-selection message
RoleSelectionPending(r) ==
    /\ deal_rooms[r].present
    /\ Registered(r) \subseteq room_joined_users[r]
    /\ \A s \in Slots : tasks[s].pc = "idle"
    /\ r \notin role_messages

\* both participants have a role and the room is not at the AMOUNT step
AmountPromptPending(r) ==
    /\ deal_rooms[r].present
    /\ Get(user_roles[r], Lower(deal_rooms[r].initiator_username), "None") # "None"
    /\ Get(user_roles[r], Lower(deal_rooms[r].counterparty_username), "None") # "None"
    /\ room_transaction_state[r] = "none"

\* C34: while a step prompt is pending (the room was not advanced because
\* the prompt was not delivered), its already-sent marker is not set, so that
\* the trigger of the prompt, when it comes again, sends the prompt.
C34_PendingPromptNotBlocked ==
    \A r \in FlowRooms :
        /\ RoleSelectionPending(r) =>
              r \notin disclaimer_sent /\ r \notin role_selection_sent
        /\ AmountPromptPending(r) => r \notin step1_messages_sent

(***************************************************************************)
(* Properties of the deposit address                                       *)
(***************************************************************************)
\* "Get escrow address from deposit_addresses_map" at the hash step
escrow_address(r) == MapGet(user_blockchain[r], user_coins[r], "none")

\* C35: while a room waits for the hash of the deposit, the escrow address
\* the hash is verified against is the address the room was given as its
\* deposit address.
C35_VerifiedAgainstIssuedAddress ==
    \A r \in FlowRooms :
        (room_transaction_state[r] = "awaiting_hash" /\ deposit_address[r] # "none")
            => escrow_address(r) = deposit_address[r]

(***************************************************************************)
(* Two rooms in the escrow flow at the same time                           *)
(***************************************************************************)
\* both rooms as the admission gate leaves them: the participants admitted,
\* the disclaimer and the role selection posted
InitRooms ==
    /\ deal_rooms = [r \in Rooms |->
            [present |-> TRUE,
             initiator_username |-> RequestOf(r).initiator_username,
             counterparty_username |-> RequestOf(r).counterparty_username,
                  request |-> 0]]
    /\ room_messages = Rooms
    /\ processed_rooms = Rooms
    /\ rooms_waiting_for_requests = {}
    /\ room_joined_users = [r \in Rooms |->
            {Lower(RequestOf(r).initiator_username),
             Lower(RequestOf(r).counterparty_username)}]
    /\ disclaimer_sent = Rooms
    /\ role_selection_sent = Rooms
    /\ role_messages = Rooms
    /\ tasks = [s \in Slots |-> IdleTask]
    /\ handler = IdleHandler
    /\ joinEvents = 2
    /\ restarts = 0
    /\ disclaimerCount = [r \in Rooms |-> 1]
    /\ roleSelCount = [r \in Rooms |-> 1]
    /\ user_roles = [r \in Rooms |-> <<>>]
    /\ room_transaction_state = [r \in Rooms |-> "none"]
    /\ step1_messages_sent = {}
    /\ step5_messages = {}
    /\ user_amounts = <<>>
    /\ user_rates = <<>>
    /\ user_payment_methods = <<>>
    /\ user_blockchain = [r \in Rooms |-> "none"]
    /\ user_coins = [r \in Rooms |-> "none"]
    /\ buyer_addresses = [r \in Rooms |-> "none"]
    /\ seller_addresses = [r \in Rooms |-> "none"]
    /\ deposit_address_messages = {}
    /\ approvals = [r \in Rooms |-> NoApprovals]
    /\ room_initiators = [r \in Rooms |-> NoInitiators]
    /\ release_approvals = [r \in Rooms |-> NoReleaseApprovals]
    /\ room_confirmed_deposits = [r \in Rooms |-> 0]
    /\ buttons = [r \in Rooms |-> {"role"}]
    /\ approvers = [r \in Rooms |-> [g \in Gates |-> NoApprovers]]
    /\ completions = [r \in Rooms |-> [g \in Gates |-> 0]]
    /\ depositRound = {}
    /\ prompts = [r \in Rooms |-> NoPrompts]
    /\ last = NoOp
    /\ InitQueue

\* who acts in a room: its two participants, as Telegram spells them
PartiesOf(r) == {u \in Users : Lower(u) \in Registered(r)}

InitiatorOf(r) == CHOOSE u \in PartiesOf(r) : is_room_initiator(r, u)

CounterpartyOf(r) == CHOOSE u \in PartiesOf(r) : is_room_counterparty(r, u)

\* the terms the initiator of a room types: an amount (also typed as the
\* rate) and a payment method, different from room to room
TermsTyped(r) == IF r = 1 THEN {"1000", "cdm"} ELSE {"2000", "upi"}

\* what is typed in a room: the initiator, who buys, the terms and an
\* address; the counterparty, who sells, an address and the master hash
RoomTexts(r) ==
    ({InitiatorOf(r)} \X (TermsTyped(r) \cup {GoodAddress}))
        \cup ({CounterpartyOf(r)} \X {GoodAddress, master_hash})

\* the deals of both rooms, each between its own participants: the
\* initiator buys, chooses the coin and may restart, the counterparty sells
NextRooms ==
    \/ \E r \in Rooms : role_select(r, InitiatorOf(r), "BUYER")
    \/ \E r \in Rooms : role_select(r, CounterpartyOf(r), "SELLER")
    \/ \E r \in Rooms : \E ut \in RoomTexts(r) : handle_text(r, ut[1], ut[2])
    \/ \E r \in Rooms : blockchain_select(r, InitiatorOf(r))
    \/ \E r \in Rooms : coin_select(r, InitiatorOf(r), "USDT")
    \/ \E r \in Rooms : \E u \in PartiesOf(r) : approve_deal(r, u)
    \/ \E r \in Rooms : payment_sent(r, CounterpartyOf(r))
    \/ \E r \in Rooms : restart_command(r, InitiatorOf(r))
    \/ send_disclaimer_message(0)
    \/ send_role_selection_message(0)
    \/ role_selection_sent_done(0)
    \/ restart_notify

SpecRooms == InitRooms /\ [][NextRooms]_vars

\* "Get all transaction data": what the deal summary of a room shows
send_deal_summary_message(r) ==
    [amount |-> IF Len(user_roles[r]) > 0 THEN First(user_amounts, 0) ELSE 0,
     rate |-> First(user_rates, 0),
     payment_method |-> First(user_payment_methods, "None")]

\* the terms accepted in a room
TermsOf(r) ==
    IF r = 1 THEN [amount |-> 1000, rate |-> 1000, payment_method |-> "CDM"]
             ELSE [amount |-> 2000, rate |-> 2000, payment_method |-> "UPI"]

\* C36: the deal summary posted in a room shows the amount, the rate and the
\* payment method accepted in that room, and the deposit confirmed for a
\* room is the amount accepted in that room.
C36_RoomsIsolated ==
    [][\A r \in Rooms :
          /\ (/\ room_transaction_state[r] = "step7_seller_address"
              /\ room_transaction_state'[r] = "deal_summary")
                 => send_deal_summary_message(r) = TermsOf(r)
          /\ room_confirmed_deposits'[r] # room_confirmed_deposits[r]
                 => room_confirmed_deposits'[r] = TermsOf(r).amount]_vars

\* what the participants of a room have entered as amount, rate and payment
\* method
TermsEntered(r) ==
    [u \in PartiesOf(r) |->
        [amount |-> Get(user_amounts, u, 0),
         rate |-> Get(user_rates, u, 0),
         payment_method |-> Get(user_payment_methods, u, "None")]]

\* the session of a room
RoomSession(r) ==
    <<room_transaction_state[r], user_roles[r], TermsEntered(r), user_blockchain[r],
      user_coins[r], buyer_addresses[r], seller_addresses[r], approvals[r],
      release_approvals[r]>>

\* C37: the restart command given in one room leaves the session of every
\* other room as it was: step, roles, amounts, rates, payment methods, coin,
\* addresses and approvals.
C37_RestartLeavesOtherRooms ==
    [][\A r \in Rooms, u \in Users :
          restart_command(r, u) =>
              \A q \in Rooms \ {r} : RoomSession(q)' = RoomSession(q)]_vars

(***************************************************************************)
(* Properties of the rooms created for the requests                        *)
(***************************************************************************)
\* the rooms on record that were created for request id
RoomsOf(id) == {r \in Rooms : deal_rooms[r].present /\ deal_rooms[r].request = id}

\* C38: no request has more than one room created for it, and a request
\* whose status is failed has no room on record.
C38_OneRoomNoneIfFailed ==
    \A id \in 1..MaxRequests :
        /\ Cardinality(RoomsOf(id)) <= 1
        /\ \A i \in 1..Len(queue_file) :
              (queue_file[i].id = id /\ queue_file[i].status = "failed")
                  => RoomsOf(id) = {}

Pending(id) == \E rec \in RecordOf(queue_file, id) : rec.status = "pending"

\* the queue file shows request id as completed or failed
Decided(id) ==
    \E rec \in RecordOf(queue_file, id) : rec.status \in {"completed", "failed"}

\* C40: with both agents running, a request written to the queue as pending
\* is eventually completed or failed, and a request that is completed or
\* failed is not pending again in a later step.
C40_PendingLeadsToDecided ==
    /\ \A id \in 1..MaxRequests : Pending(id) ~> Decided(id)
    /\ [][\A id \in 1..MaxRequests : Decided(id) => ~Pending(id)']_vars

====
